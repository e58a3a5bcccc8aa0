--------------------------- MODULE MCContactProjection ---------------------------
(***************************************************************************)
(* An instance of ContactProjection for TLC: a phone JID 1 and a LID 2     *)
(* that may share the phone 4, a second LID 3 that may claim it too.       *)
(***************************************************************************)
EXTENDS ContactProjection, TLC

CONSTANTS p1, r1, ob

Types == [i \in Identity |-> IF i = 1 THEN "PHONE_JID" ELSE IF i = 4 THEN "PHONE" ELSE "LID"]
Phones == [i \in {1} |-> 4]
Rows == 2 :> 2 @@ 5 :> 1
Entry(phone, name, push) == [phone |-> phone, name |-> name, push |-> push]
Linked == (2 :> Entry(4, None, None))
Shared == (2 :> Entry(4, "c", None)) @@ (3 :> Entry(4, None, None))
Contacts == {Linked, Shared}
LinkedThenShared == <<{Linked}, {Shared}>>
=============================================================================
