-------------------------- MODULE ColumnUpdates --------------------------
(***************************************************************************)
(* What an UPDATE writes when a session flushes a row it loaded as old and *)
(* changed to new, while the committed row may have become cur: SQLAlchemy *)
(* names the columns whose value the session changed, and no others.       *)
(***************************************************************************)

Column(old, new, cur) == IF new = old THEN cur ELSE new
==========================================================================
