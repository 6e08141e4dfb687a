------------------------------- MODULE MCMesh -------------------------------
EXTENDS Mesh

\* A port that is missing, one that does not fit 16 bits, and an entry without host; the
\* same addresses in YAML.
MCJsonDocs == {<<[host |-> "a", port |-> Absent, priority |-> 1], [host |-> "b", port |-> 70000, priority |-> 0]>>,
               <<[host |-> Absent, port |-> 1, priority |-> 0]>>}
MCYamlTexts == {<<[kind |-> "host", value |-> "b"], [kind |-> "port", value |-> 4464], [kind |-> "host", value |-> "a"]>>, <<>>}

\* Three ids of one bucket, which holds two; the first is the placeholder of entry nodes.
MCPeers == {<<0, 0, 0>>, <<0, 0, 1>>, <<0, 1, 0>>}
MCLocalId == <<1, 1, 1>>

MCDirect(r) == r

MCTargets == {<<"node", "n1">>, <<"node", "n1", 0>>}
=============================================================================
