--------------------------- MODULE MCBatchContent ---------------------------
(* Requests with a duplicate, a missing object and a working-tree file; the  *)
(* pipes hold less than one answer.                                          *)
EXTENDS BatchContent

MCNames == {"a", "b", "gone", "file", "sub"}
MCKind == [n \in MCNames |-> CASE n \in {"a", "b"} -> "blob" [] n = "gone" -> "missing"
                               [] n = "file" -> "disk" [] OTHER -> "gitlink"]
MCLists == { <<"a", "gone", "b", "a">>, <<"file", "b", "a", "gone">>, <<"a", "a", "gone", "b">>,
             <<"gone", "a", "file">>,
             <<"file">>, <<"b", "sub">> }
GitlinkLists == { <<"a", "sub", "b">>, <<"sub", "b", "a">> }
=============================================================================
