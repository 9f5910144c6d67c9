--------------------------- MODULE MCBatchSession ---------------------------
(* Five hunks: enough for three failures after a death and hunks that follow, *)
(* with objects of every kind, and a hunk whose two objects are both missing. *)
EXTENDS BatchSession

MCObjects == {"a", "b", "c", "none", "gone", "lost", "empty", "two", "bad"}
MCKind == [o \in MCObjects |->
  CASE o \in {"a", "b", "c"} -> "blob" [] o = "none" -> "zero" [] o = "empty" -> "empty"
    [] o = "two" -> "odd" [] o = "bad" -> "corrupt" [] OTHER -> "missing"]
MCHunks == {
  << <<"a", "b">>, <<"b", "c">>, <<"none", "a">>, <<"c", "b">>, <<"a", "c">> >>,
  << <<"a", "gone">>, <<"two", "b">>, <<"lost", "gone">>, <<"two", "a">>, <<"empty", "c">> >>,
  << <<"two", "b">>, <<"two", "c">>, <<"a", "two">>, <<"b", "none">>, <<"lost", "gone">> >>,
  << <<"a", "bad">>, <<"b", "a">>, <<"c", "empty">>, <<"empty", "b">>, <<"bad", "c">> >> }
OneCorrupt == { << <<"a", "b">>, <<"b", "c">>, <<"c", "a">>, <<"bad", "a">> >> }
MCSamePath == {1, 3, 5}
=============================================================================
