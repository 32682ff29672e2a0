--------------------------- MODULE MCDatabaseFile ---------------------------
(* Commands of each kind on one file, for TLC. *)
EXTENDS DatabaseFile, TLC

CONSTANTS i1, i2, m1, o1, f1, f2, c1, l1, old

MCOldRows == {old}

MCKind == i1 :> "init" @@ i2 :> "init" @@ m1 :> "migrate" @@ o1 :> "open"
          @@ f1 :> "fail" @@ f2 :> "fail" @@ c1 :> "cutover" @@ l1 :> "legacy"
=============================================================================
