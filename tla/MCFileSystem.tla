----------------------------- MODULE MCFileSystem -----------------------------
(***************************************************************************)
(* FileSystem for TLC: a pool with room for the root, three more entries   *)
(* and two units of content, and the names that take every path through    *)
(* the code: a directory, two files, a path, "..", and a name that is too  *)
(* long together with what is left of it.  Paths of two short names fit    *)
(* the buffer, exactly or with room to spare; longer ones are cut.         *)
(***************************************************************************)
EXTENDS FileSystem

MCNames == {"d", "..", "a.hak", "b.hak", "d/b.hak", "long.hak", "long"}
MCHak == {"a.hak", "b.hak", "d/b.hak", "long.hak"}
MCLong == {"long.hak"}
MCStored == [n \in MCNames |-> IF n = "long.hak" THEN "long" ELSE n]
MCSplit == [n \in {"d/b.hak"} |-> <<"d", "b.hak">>]
MCWidth == [n \in MCNames \cup {"/"} |-> CASE n = "long" -> 4
                                           [] n \in MCHak -> 2
                                           [] n = ".." -> 2
                                           [] OTHER -> 1]
MCTexts == {"", "text"}
MCSize == [t \in MCTexts |-> IF t = "" THEN 1 ELSE 2]
===============================================================================
