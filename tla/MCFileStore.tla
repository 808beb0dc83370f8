---------------------------- MODULE MCFileStore ----------------------------
EXTENDS FileStore, TLC
MCServer == <<"one">>
MCClient == <<"mine", "too">>
Symmetric == Permutations(Handlers)
=============================================================================
