----------------------------- MODULE Bootstrap ------------------------------
(***************************************************************************)
(* The entry nodes (vpn/bootstrap.rs): a configuration read from JSON or    *)
(* from simplified YAML, the table of known nodes and the record of the     *)
(* entry nodes that were reached.  A JSON document is the sequence of its   *)
(* node objects, a YAML text the sequence of its lines; a field that is not *)
(* there is Absent.                                                         *)
(***************************************************************************)
EXTENDS Integers, Sequences, SequencesExt

CONSTANTS
    JsonDocs, YamlTexts,      \* the configuration files considered
    Absent,
    KnownIds,                 \* the ids that are reported
    DEFAULT_BOOTSTRAP_PORT,
    MaxConfig                 \* bound: nodes in the configuration

VARIABLES
    config,                   \* config.nodes
    known_nodes,              \* the ids in the table
    connected_bootstrap,
    bootstrapped              \* what bootstrap last returned

bootVars == <<config, known_nodes, connected_bootstrap, bootstrapped>>

BootstrapNode(host, port, priority) == [host |-> host, port |-> port, priority |-> priority]

\* addr: formatted from the host and the port.
NodeAddr(node) == <<node.host, node.port>>

\* sort_by_key, which is stable.
SortByPriority(nodes) ==
    LET ps == SetToSortSeq({nodes[i].priority : i \in DOMAIN nodes}, <)
    IN  FlattenSeq([k \in DOMAIN ps |-> SelectSeq(nodes, LAMBDA n : n.priority = ps[k])])

\* from_json: a node without host refuses the file; the port is truncated to 16 bits.
JsonAccepted(doc) == \A i \in DOMAIN doc : doc[i].host # Absent
FromJson(doc) ==
    SortByPriority([i \in DOMAIN doc |->
        BootstrapNode(doc[i].host,
                      (IF doc[i].port = Absent THEN DEFAULT_BOOTSTRAP_PORT ELSE doc[i].port) % 65536,
                      IF doc[i].priority = Absent THEN i - 1 ELSE doc[i].priority)])

\* One line of from_yaml_simple.
YamlLine(acc, line) ==
    CASE line.kind = "host" ->
            [nodes |-> IF acc.host = Absent THEN acc.nodes ELSE Append(acc.nodes, BootstrapNode(acc.host, acc.port, 0)),
             host |-> line.value, port |-> IF acc.host = Absent THEN acc.port ELSE DEFAULT_BOOTSTRAP_PORT]
      [] line.kind = "port" /\ line.value \in 0..65535 -> [acc EXCEPT !.port = line.value]
      [] OTHER -> acc

\* from_yaml_simple: every node has priority 0; the last one is added after the loop.
FromYamlSimple(lines) ==
    LET end == FoldLeft(YamlLine, [nodes |-> <<>>, host |-> Absent, port |-> DEFAULT_BOOTSTRAP_PORT], lines)
    IN  IF end.host = Absent THEN end.nodes ELSE Append(end.nodes, BootstrapNode(end.host, end.port, 0))

\* The configurations that the files give.
ConfigNodes ==
    {FromJson(d) : d \in {d \in JsonDocs : JsonAccepted(d)}} \cup {FromYamlSimple(y) : y \in YamlTexts}

BootInit ==
    /\ config = <<>>
    /\ known_nodes = {}
    /\ connected_bootstrap = <<>>
    /\ bootstrapped = "none"

LoadConfig(nodes) ==
    /\ config = <<>> /\ bootstrapped = "none"
    /\ config' = nodes
    /\ UNCHANGED <<known_nodes, connected_bootstrap, bootstrapped>>

\* BootstrapConfig::add_node, on the configuration before the manager uses it.
AddConfigNode(node) ==
    /\ Len(config) < MaxConfig
    /\ bootstrapped = "none"
    /\ config' = SortByPriority(Append(config, node))
    /\ UNCHANGED <<known_nodes, connected_bootstrap, bootstrapped>>

\* connect_to_bootstrap_node: nothing is connected, and no node is discovered.
ConnectToBootstrapNode(node) == <<>>

\* bootstrap: every entry node is tried, in order of priority, and recorded as reached.
DoBootstrap ==
    LET discovered == FlattenSeq([i \in DOMAIN config |-> ConnectToBootstrapNode(config[i])])
    IN  /\ Len(connected_bootstrap) < MaxConfig
        /\ connected_bootstrap' = connected_bootstrap \o [i \in DOMAIN config |-> NodeAddr(config[i])]
        /\ bootstrapped' = IF config = <<>> THEN "ConfigError"
                           ELSE IF discovered = <<>> THEN "AllNodesUnreachable" ELSE "Ok"
        /\ UNCHANGED <<config, known_nodes>>

AddKnownNode(id) ==
    /\ known_nodes' = known_nodes \cup {id}
    /\ UNCHANGED <<config, connected_bootstrap, bootstrapped>>

RemoveKnownNode(id) ==
    /\ known_nodes' = known_nodes \ {id}
    /\ UNCHANGED <<config, connected_bootstrap, bootstrapped>>

BootNext ==
    \/ \E nodes \in ConfigNodes : LoadConfig(nodes)
    \/ AddConfigNode(BootstrapNode("c", 1, 0))
    \/ DoBootstrap
    \/ \E id \in KnownIds : AddKnownNode(id) \/ RemoveKnownNode(id)

\* is_bootstrapped
IsBootstrapped == connected_bootstrap # <<>>
=============================================================================
