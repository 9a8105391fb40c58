---------------------------- MODULE MCHttpConnection ----------------------------
(* HttpConnection with short dialogues for TLC.                                *)
EXTENDS HttpConnection

Asks(what, n, keep) == [asks |-> what, data |-> n, keep_alive |-> keep]

ShortDialogues ==
  {<<Asks("POST", 3, TRUE), Asks("POST", 1, TRUE), Asks("page", 0, TRUE)>>,
   <<Asks("script", 0, TRUE), Asks("POST", 2, TRUE), Asks("page", 0, FALSE)>>,
   <<Asks("missing", 0, FALSE)>>,
   <<Asks("root", 0, TRUE), Asks("unknown", 0, TRUE)>>}
===============================================================================
