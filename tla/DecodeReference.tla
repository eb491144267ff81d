--------------------------- MODULE DecodeReference ---------------------------
(***************************************************************************)
(* The decoder's answers against the meaning of its messages.  TLC only.   *)
(***************************************************************************)
EXTENDS Decoder

M == INSTANCE Meaning

\* Decode's answer depends on the message and on the object decoded into, and on
\* nothing earlier messages left in pools: it is the message's meaning if it has
\* one, with all of it read, and otherwise an error or a panic.
AnswerIsMeaning ==
    \A g \in Goroutine :
        stack[g] = <<>> /\ pc[g] \in {"return", "fail", "panic"} =>
            LET meaning == M!Meaning(ask[g].sd, ask[g].b, ask[g].val)
            IN  IF pc[g] = "return"
                THEN meaning = M!Good(Given(g), pos[g])
                ELSE ~meaning.ok

\* The fields in the first n tokens of a message, if these are whole fields.
FieldsIn(g, n) ==
    M!ReadFields(SubSeq(ask[g].b, 1, n) \o <<Stop>>, 1, ask[g].sd, ask[g].val, MaxDepth,
                 Required(ask[g].sd), <<>>)

\* An error or a panic, however deep, spares the rest of the object: the fields before
\* the one it happened in are as in the message, and that field alone may be partly
\* decoded; all others and the unknown fields are what they were.
ErrorSparesTheRest ==
    \A g \in Goroutine :
        stack[g] = <<>> /\ pc[g] \in {"fail", "panic"} =>
            LET obj == Given(g)
                n == Max({k \in 0..Len(ask[g].b) : FieldsIn(g, k).ok})
                read == FieldsIn(g, n).val
                failed == IF n < Len(ask[g].b) /\ ask[g].b[n + 1].tok = "field"
                          THEN {ask[g].b[n + 1].id} ELSE {}
            IN  /\ obj.u = ask[g].val.u
                /\ Restrict(obj.f, DOMAIN obj.f \ failed)
                      = Restrict(read.f, DOMAIN read.f \ failed)
=============================================================================
