------------------------------ MODULE MCConcat ------------------------------
(***************************************************************************)
(* Three mails to the addressee a: m1 and m2 with one text, m3 with another,*)
(* and copies as the run chooses.                                          *)
(***************************************************************************)
EXTENDS Concat, TLC

CONSTANTS m1, m2, m3, a, b, c, w1, w2

MCMail == {m1, m2, m3}

MCText == m1 :> "x" @@ m2 :> "x" @@ m3 :> "y"

\* m1 repeats nothing of m2: the copies differ.
MCOneCc == m1 :> {b} @@ m2 :> {} @@ m3 :> {}
MCOneForm == m1 :> "string" @@ m2 :> "absent" @@ m3 :> "absent"

\* m2 repeats m1; m3 has its own copy.
MCTwinCc == m1 :> {b} @@ m2 :> {b} @@ m3 :> {b}
MCTwinForm == m1 :> "array" @@ m2 :> "array" @@ m3 :> "string"

\* Two mails with different copies, both written as one string.
MCStringCc == m1 :> {b} @@ m2 :> {c} @@ m3 :> {b}
MCStringForm == m1 :> "string" @@ m2 :> "string" @@ m3 :> "array"

\* The workers are alike, and so are m1 and m2 where m2 repeats m1.
TwinSymmetry == {p @@ q : p \in Permutations({w1, w2}), q \in Permutations({m1, m2})}
=============================================================================
