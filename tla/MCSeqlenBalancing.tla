-------------------------- MODULE MCSeqlenBalancing --------------------------
EXTENDS SeqlenBalancing

MCLengths == {0, 1, 5}
==============================================================================
