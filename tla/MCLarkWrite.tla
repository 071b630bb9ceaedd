---------------------------- MODULE MCLarkWrite ----------------------------
(* Instances of LarkWrite for TLC. *)
EXTENDS LarkWrite

CONSTANTS c1, c2, i1, k1, p1, p2, p3, d1

Request(id, key, print, doc, essential, whitelist) ==
  [id |-> id, key |-> key, print |-> print, doc |-> doc, essential |-> essential,
   whitelist |-> whitelist]

\* The same confirmed update of a document, essential and with a key, and neither.
KeyedUpdate == Request(i1, k1, p1, d1, "yes", "no")
PlainUpdate == Request(i1, None, p1, d1, "no", "no")
\* An essential message, and a write of a whitelisted interface.
Message == Request(None, None, p2, None, "yes", "no")
Listed == Request(None, None, p3, None, "no", "yes")

PastEvent(print) ==
  [by |-> None, key |-> None, print |-> print, doc |-> None, allowed |-> "yes"]

Some == {KeyedUpdate, PlainUpdate, Message, Listed}
Old == {PastEvent(p3)}
Past == {PastEvent(p2)}
=============================================================================
