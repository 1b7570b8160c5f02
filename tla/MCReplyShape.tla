----------------------------- MODULE MCReplyShape -----------------------------
(***************************************************************************)
(* An invoice file, an untyped lookbook, an image, an HTML chip that its   *)
(* identifier calls an invoice, and a file that only its identifier calls  *)
(* so; answers of up to three kinds of lines with up to two artifacts.     *)
(***************************************************************************)
EXTENDS ReplyShape, FiniteSets

CONSTANTS inv, book, pic, chip, old

MCArtifacts == {inv, book, pic, chip, old}
MCTypeOf == [a \in Artifacts |->
  CASE a = pic -> "image" [] a = chip -> "html" [] a = book -> "none" [] OTHER -> "file"]
MCTitleOf == [a \in Artifacts |->
  CASE a = inv -> "invoice" [] a = book -> "lookbook" [] OTHER -> "plain"]
MCIdOf == [a \in Artifacts |-> IF a \in {inv, chip, old} THEN "invoice" ELSE "plain"]
MCMayHold == [a \in Artifacts |->
  CASE a = inv -> {"pdf", "sheet", "facts", "junk", "big", "empty"}
    [] a = book -> {"pdf", "sheet", "big"}
    [] a = pic -> {"image"}
    [] a = chip -> {"html", "facts", "big"}
    [] a = old -> {"pdf"}]

Few(S) == {s \in SUBSET S : Cardinality(s) <= 3}
MCLines == Few(Kinds \ {"envelope"}) \cup {{"envelope"}}
Lists == {<<>>} \cup {<<a>> : a \in Artifacts \ {old}}
         \cup {<<inv, pic>>, <<pic, inv>>, <<inv, book>>, <<chip, pic>>, <<inv, chip>>}
\* The response lists what it refers to, and sometimes nothing at all.
Carried == {p \in Lists \X Lists : p[1] \in {<<>>, p[2]} \/ p[2] = <<>>}
MCTurns ==
  {[completed |-> TRUE, lines |-> ls, inline |-> c[1], listed |-> c[2], asked |-> q,
    stated |-> s, welcome |-> w] :
     ls \in MCLines, c \in Carried, q \in {"invoice", "document", "other"},
     s \in BOOLEAN, w \in BOOLEAN}
  \cup
  {[completed |-> FALSE, lines |-> {"chat"}, inline |-> <<>>, listed |-> <<>>, asked |-> q,
    stated |-> FALSE, welcome |-> w] : q \in {"invoice", "document", "other"}, w \in BOOLEAN}

===============================================================================
