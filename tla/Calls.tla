--------------------------------- MODULE Calls ---------------------------------
(***************************************************************************)
(* A call that is many steps long as one operator: a record v goes through *)
(* the functions of the code, each of which returns it as it leaves it and *)
(* its result in the field res.                                            *)
(***************************************************************************)

EXTENDS Naturals

\* Op of a value that is computed once
With(v, Op(_)) == Op(v)
Then(v, Op(_)) == IF v.res = "OK" THEN Op(v) ELSE v
Else(v, Op(_)) == IF v.res = "OK" THEN v ELSE Op(v)
Fail(v, r) == [v EXCEPT !.res = r]
\* What an error passes on: the call goes on as after a success.
Go(v) == [v EXCEPT !.res = "OK"]

\* A loop of the code that ends with the first success: Op of what the attempt before
\* has left, up to n times.
Retry(n, v, Op(_)) ==
  LET after[i \in 0 .. n] ==
        IF i = 0 THEN v
        ELSE With(after[i - 1], LAMBDA p : IF i > 1 /\ p.res = "OK" THEN p ELSE Op(p))
  IN  after[n]

\* Op for each i up to n, as long as there is none.
Repeat(n, v, Op(_, _)) ==
  LET after[i \in 0 .. n] ==
        IF i = 0 THEN v ELSE With(after[i - 1], LAMBDA p : Then(p, LAMBDA q : Op(q, i)))
  IN  after[n]

=============================================================================
