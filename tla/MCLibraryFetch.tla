---------------------------- MODULE MCLibraryFetch ----------------------------
(* Instances of LibraryFetch for TLC.                                         *)
EXTENDS LibraryFetch

CONSTANTS h1, h2

==============================================================================
