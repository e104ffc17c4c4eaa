----------------------- MODULE MCCompilerPreparation -----------------------
(* Two versions of the repository, each with a base revision of its own.    *)
EXTENDS CompilerPreparation

MCBase == <<"b1", "b2">>
MCPatched == <<"p1", "p2">>
=============================================================================
