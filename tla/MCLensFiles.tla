----------------------------- MODULE MCLensFiles -----------------------------
(* Values for the constants of LensFiles. *)
EXTENDS LensFiles

Good(id, bytes) ==
  [id |-> id, name |-> <<"other">>, icon |-> [i \in 1..bytes |-> "lower"],
   html |-> [bytes |-> bytes, opens |-> TRUE, closes |-> TRUE]]

Here == <<"lower">>
There == <<"lower", "lower">>

Strings == UNION {[1..n -> Characters] : n \in 0..3}
Pages == [bytes : 1..4, opens : BOOLEAN, closes : BOOLEAN]

\* Lenses with one part that may be wrong, at and beyond each limit.
Odd ==
  LET good == Good(Here, 1) IN
    {[good EXCEPT !.id = s] : s \in Strings} \cup {[good EXCEPT !.name = s] : s \in Strings}
    \cup {[good EXCEPT !.icon = s] : s \in Strings} \cup {[good EXCEPT !.html = h] : h \in Pages}

Call(t, lens) == [turn |-> t, lens |-> lens]

\* One odd call; or two turns and three calls, of one id or with another id
\* between them.
MCScenarios ==
  {<<Call(1, lens)>> : lens \in Odd} \cup
  {<<Call(1, Good(Here, 2)), Call(1, Good(id, 1)), Call(2, Good(Here, 1))>> :
     id \in {Here, There}}

\* Two calls of one turn for one lens, as the smoke test's only turn may have.
MCSmoke == {<<Call(1, Good(Here, 2)), Call(1, Good(Here, 1))>>}
=============================================================================
