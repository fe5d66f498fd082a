--------------------------- MODULE MCConfiguration ---------------------------
(* Messages for TLC: short and long ones, so that a short one leaves the   *)
(* tail of a long one behind it; periods 0, small, larger, and one beyond  *)
(* eight bits; one without a period, one that cJSON fails on and one that  *)
(* ends too early, which finds a longer buffer or one of its own length.   *)
EXTENDS Configuration

Json(size, period) == [size |-> size, form |-> "json", period |-> period]

MCMessages ==
    {Json(2, 0), Json(3, 259), Json(1, Nothing),
     [size |-> 2, form |-> "garbage", period |-> Nothing],
     [size |-> 2, form |-> "open", period |-> Nothing]}

(* What older units complete it to: no period, or one nobody sent.         *)
MCPeriods == {Nothing, 2}
=============================================================================
