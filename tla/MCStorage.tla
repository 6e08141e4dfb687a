----------------------------- MODULE MCStorage ------------------------------
EXTENDS Storage

\* No mixture of the chunks of two of them is one of them.
MCContents == {<<1>>, <<2, 2>>}

MCHistory == <<<<1>>, <<1, 2>>>>

MCDatas == {<<1>>, <<1, 2>>}
=============================================================================
