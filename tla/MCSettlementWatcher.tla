------------------------- MODULE MCSettlementWatcher -------------------------
(* SettlementWatcher on small instances.                                   *)
EXTENDS SettlementWatcher

(* A trailing order, at half its watermark, and a fixed one; or the        *)
(* reverse.  On prices 1, 2 and 4 the trail is crossed after a fall from 4 *)
(* to 2 or from 2 to 1, and the fixed trigger at 2 and below.              *)
MCTrailingFirst == <<Trailing(5000), Fixed(2)>>
MCFixedFirst == <<Fixed(2), Trailing(5000)>>
=============================================================================
