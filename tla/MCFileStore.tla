----------------------------- MODULE MCFileStore -----------------------------
(* Two requests, enough to wait for one another: no file, one file, two    *)
(* files that differ, two files with one content.                          *)
EXTENDS FileStore, TLC

CONSTANTS n1, n2, c1, c2

MCSendable ==
  {n1 :> c1, n1 :> c2, n1 :> c1 @@ n2 :> c2, n1 :> c1 @@ n2 :> c1, NoFiles}

==============================================================================
