----------------------------- MODULE MCDarkStop -----------------------------
(* DarkStop on small instances.                                            *)
EXTENDS DarkStop, TLC

Strategy(name) == Field("strategy", Text(name))
Trigger(n) == Field("triggerPrice", Decimal(n))
Trail5000 == Field("trailBps", Number(5000))

(* Policies of the 0.1.0 client and of today's, and plaintexts that two    *)
(* readers could take for different policies: a name twice, a name in      *)
(* capitals, both policies, text after the object, and a null.             *)
MCPayloads ==
  {Object(<<Trigger(10)>>),
   Object(<<Strategy("trailing"), Trail5000>>),
   Object(<<Strategy("fixed"), Trigger(10), Trigger(30)>>),
   Object(<<Strategy("fixed"), Trigger(10), Variant("triggerPrice", Decimal(30))>>),
   Object(<<Strategy("fixed"), Trigger(10), Trail5000>>),
   [Object(<<Strategy("trailing"), Trail5000>>) EXCEPT !.tail = TRUE],
   Object(<<Strategy("trailing"), Trail5000, Field("triggerPrice", Null)>>)}

(* A fixed stop, and a trail of 33.5%.                                     *)
MCAsks == {AskFixed(10), AskTrail(33, <<5>>)}

(* 30 millionths; 10.9, which is 10, a fixed trigger here, to both         *)
(* readers; 0.5, which is no price to the watcher.                         *)
MCFeeds == {[value |-> 3, decimals |-> 5], [value |-> 109, decimals |-> 7],
            [value |-> 5, decimals |-> 7]}
=============================================================================
