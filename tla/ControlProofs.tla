---------------------------- MODULE ControlProofs ----------------------------
(***************************************************************************)
(* What MCPanel checks of a few callers, processes and builds, for any     *)
(* number of them: what several goroutines switch, the update, and the     *)
(* clock set from the GPS receiver.                                        *)
(***************************************************************************)
EXTENDS ModesProofs


-----------------------------------------------------------------------------
(* The decoder sidecars: what a call may have left to do (Sidecar).        *)

Plans ==
    {<<>>, <<"enable">>, <<"disable">>, <<"params">>, <<"start">>,
     <<"keep", "retap", "attach">>, <<"disable", "enable">>,
     <<"close", "retap", "attach">>, <<"close", "retap", "attach", "enable">>,
     <<"retap", "attach">>, <<"retap", "attach", "enable">>,
     <<"attach">>, <<"attach", "enable">>}

(* (SetDeepCWEnabled, SetFT8TSParams).                                     *)
LEMMA PlanSteps ==
    ASSUME NEW s \in Plans, s # <<>>
    PROVE  /\ Head(s) \in {"enable", "params", "start"} => Tail(s) = <<>>
           /\ Head(s) = "keep" => Tail(s) = <<"retap", "attach">>
           /\ Head(s) = "disable" => Tail(s) \in {<<>>, <<"enable">>}
           /\ Head(s) = "close" =>
                Tail(s) \in {<<"retap", "attach">>, <<"retap", "attach", "enable">>}
           /\ Head(s) = "retap" => Tail(s) \in {<<"attach">>, <<"attach", "enable">>}
           /\ Head(s) = "attach" => Tail(s) \in {<<>>, <<"enable">>}
  <1>1. CASE \E a \in {"enable", "disable", "params", "start", "attach"} : s = <<a>>
    BY <1>1, Tails
  <1>2. CASE s = <<"disable", "enable">> \/ s = <<"retap", "attach">> \/ s = <<"attach", "enable">>
    <2>1. CASE s = <<"disable", "enable">>
      BY <2>1, Tails
    <2>2. CASE s = <<"retap", "attach">>
      BY <2>2, Tails
    <2>3. CASE s = <<"attach", "enable">>
      BY <2>3, Tails
    <2> QED BY <1>2, <2>1, <2>2, <2>3
  <1>3. CASE \/ s = <<"keep", "retap", "attach">> \/ s = <<"close", "retap", "attach">>
             \/ s = <<"retap", "attach", "enable">>
    <2>1. CASE s = <<"keep", "retap", "attach">>
      BY <2>1, Tails
    <2>2. CASE s = <<"close", "retap", "attach">>
      BY <2>2, Tails
    <2>3. CASE s = <<"retap", "attach", "enable">>
      BY <2>3, Tails
    <2> QED BY <1>3, <2>1, <2>2, <2>3
  <1>4. CASE s = <<"close", "retap", "attach", "enable">>
    BY <1>4, Tails
  <1> QED BY <1>1, <1>2, <1>3, <1>4 DEF Plans

(* What a step puts before the rest of its plan (Sidecar, Then).           *)
LEMMA Joined ==
    /\ <<>> \o <<>> = <<>> /\ <<>> \o <<"enable">> = <<"enable">>
    /\ <<"start">> \o <<>> = <<"start">>
    /\ <<"disable", "enable">> \o <<>> = <<"disable", "enable">>
    /\ <<"keep", "retap", "attach">> \o <<>> = <<"keep", "retap", "attach">>
    /\ <<>> \o <<"retap", "attach">> = <<"retap", "attach">>
    /\ <<>> \o <<"retap", "attach", "enable">> = <<"retap", "attach", "enable">>
    /\ <<>> \o <<"attach">> = <<"attach">>
    /\ <<>> \o <<"attach", "enable">> = <<"attach", "enable">>
    /\ <<"close", "retap", "attach">> \o <<>> = <<"close", "retap", "attach">>
    /\ <<"close", "retap", "attach">> \o <<"enable">>
         = <<"close", "retap", "attach", "enable">>
  <1> DEFINE S == {"close", "retap", "attach", "enable"}
  <1>1. /\ <<"close", "retap", "attach">> \in Seq(S)
        /\ <<"enable">> \in Seq(S)
        /\ <<"close", "retap", "attach", "enable">> \in Seq(S)
    OBVIOUS
  <1> HIDE DEF S
  <1>2. <<"close", "retap", "attach">> \o <<"enable">> \in Seq(S)
    BY <1>1
  <1>3. Len(<<"close", "retap", "attach">> \o <<"enable">>)
           = Len(<<"close", "retap", "attach", "enable">>)
    BY <1>1
  <1>4. \A i \in 1..4 : (<<"close", "retap", "attach">> \o <<"enable">>)[i]
                           = <<"close", "retap", "attach", "enable">>[i]
    BY <1>1
  <1>5. <<"close", "retap", "attach">> \o <<"enable">>
         = <<"close", "retap", "attach", "enable">>
    BY <1>1, <1>2, <1>3, <1>4, SeqEqual
  <1> QED BY <1>5, Alone

-----------------------------------------------------------------------------
(* Two callers of a sidecar.                                               *)

SideTwoTypes ==
    /\ dcwEng \in Procs \cup {"none"}
    /\ dcwProc \in [Procs -> {"free", "runs", "died", "closed"}]
    /\ dcwTodo \in [Pair -> Plans]
    /\ got \in [Pair -> Procs \cup {"none"}]

\* Whoever holds an engine is about to keep it or to close it, alone.
HeldApart ==
    /\ \A t \in Pair : got[t] # "none" =>
         /\ dcwTodo[t] # <<>> /\ Head(dcwTodo[t]) \in {"keep", "close"}
         /\ dcwProc[got[t]] \in {"runs", "died"} /\ got[t] # dcwEng
    /\ \A t \in Pair : dcwTodo[t] # <<>> /\ Head(dcwTodo[t]) = "keep" => got[t] # "none"
    /\ \A t, u \in Pair : t # u /\ got[t] # "none" => got[t] # got[u]

SideTwoInv ==
    /\ SideTwoTypes /\ HeldApart
    /\ dcwEng # "none" => dcwProc[dcwEng] \in {"runs", "died"}

(* No step of either caller leaves an engine that is closed with the radio *)
(* (SetDeepCWEnabled, SetFT8TSEnabled).                                    *)
LEMMA SideTwoStep ==
    ASSUME ControlAssumption, SideTwoInv, SideTwo!Next
    PROVE  SideTwoInv'
<1> USE DEF SideTwoInv, SideTwoTypes, HeldApart
<1>0. "none" \notin Procs
  BY DEF ControlAssumption
<1>1. ASSUME NEW t \in Pair, SideTwo!Enter(t) PROVE SideTwoInv'
  <2>1. PICK call \in {"enable", "disable", "params"} : dcwTodo' = [dcwTodo EXCEPT ![t] = <<call>>]
    BY <1>1 DEF SideTwo!Enter
  <2>2. <<call>> \in Plans /\ Head(<<call>>) # "keep"
    BY DEF Plans
  <2> QED BY <1>1, <2>1, <2>2 DEF SideTwo!Enter
<1>2. ASSUME NEW t \in Pair, SideTwo!Enable(t) PROVE SideTwoInv'
  <2>1. dcwTodo[t] # <<>> /\ Head(dcwTodo[t]) = "enable" /\ Tail(dcwTodo[t]) = <<>>
    BY <1>2, PlanSteps DEF SideTwo!Enable, SideTwo!At
  <2>2. dcwTodo' \in {[dcwTodo EXCEPT ![t] = <<>>], [dcwTodo EXCEPT ![t] = <<"start">>]}
    BY <1>2, <2>1, Joined DEF SideTwo!Enable, SideTwo!Then
  <2>3. <<>> \in Plans /\ <<"start">> \in Plans /\ Head(<<"start">>) = "start"
    BY DEF Plans
  <2> QED BY <1>2, <2>1, <2>2, <2>3 DEF SideTwo!Enable
<1>3. ASSUME NEW t \in Pair, SideTwo!Start(t) PROVE SideTwoInv'
  <2>1. dcwTodo[t] # <<>> /\ Head(dcwTodo[t]) = "start" /\ Tail(dcwTodo[t]) = <<>>
    BY <1>3, PlanSteps DEF SideTwo!Start, SideTwo!At
  <2>2. <<>> \in Plans /\ <<"keep", "retap", "attach">> \in Plans
        /\ <<"keep", "retap", "attach">> # <<>> /\ Head(<<"keep", "retap", "attach">>) = "keep"
    BY DEF Plans
  <2>3. CASE /\ dcwTodo' = [dcwTodo EXCEPT ![t] = <<>>] /\ UNCHANGED <<dcwProc, got, dcwEng>>
    BY <2>1, <2>2, <2>3
  <2>4. ASSUME NEW p \in Procs, dcwProc[p] = "free", dcwProc' = [dcwProc EXCEPT ![p] = "runs"],
               got' = [got EXCEPT ![t] = p], dcwEng' = dcwEng,
               dcwTodo' = [dcwTodo EXCEPT ![t] = <<"keep", "retap", "attach">>]
        PROVE  SideTwoInv'
    BY <1>0, <2>1, <2>2, <2>4
  <2>5. <<>> \o Tail(dcwTodo[t]) = <<>>
        /\ <<"keep", "retap", "attach">> \o Tail(dcwTodo[t]) = <<"keep", "retap", "attach">>
    BY <2>1, Joined, Zenon
  <2> QED BY <1>3, <2>3, <2>4, <2>5, Zenon DEF SideTwo!Start, SideTwo!Then
<1>4. ASSUME NEW t \in Pair, SideTwo!Keep(t) PROVE SideTwoInv'
  <2>1. dcwTodo[t] # <<>> /\ Head(dcwTodo[t]) = "keep" /\ Tail(dcwTodo[t]) = <<"retap", "attach">>
    BY <1>4, PlanSteps DEF SideTwo!Keep, SideTwo!At
  <2>2. dcwTodo' = [dcwTodo EXCEPT ![t] = <<"retap", "attach">>]
    BY <1>4, <2>1, Joined DEF SideTwo!Keep, SideTwo!Then
  <2>3. <<"retap", "attach">> \in Plans /\ Head(<<"retap", "attach">>) = "retap"
    BY DEF Plans
  <2> QED BY <1>0, <1>4, <2>1, <2>2, <2>3 DEF SideTwo!Keep
<1>5. ASSUME NEW t \in Pair, SideTwo!Disable(t) PROVE SideTwoInv'
  <2>1. dcwTodo[t] # <<>> /\ Head(dcwTodo[t]) = "disable" /\ Tail(dcwTodo[t]) \in {<<>>, <<"enable">>}
    BY <1>5, PlanSteps DEF SideTwo!Disable, SideTwo!At
  <2>2. PICK s \in {<<"close", "retap", "attach">>, <<"close", "retap", "attach", "enable">>} :
          dcwTodo' = [dcwTodo EXCEPT ![t] = s]
    BY <1>5, <2>1, Joined DEF SideTwo!Disable, SideTwo!Then
  <2>3. s \in Plans /\ s # <<>> /\ Head(s) = "close"
    BY DEF Plans
  <2> QED BY <1>0, <1>5, <2>1, <2>2, <2>3 DEF SideTwo!Disable
<1>6. ASSUME NEW t \in Pair, SideTwo!Close(t) PROVE SideTwoInv'
  <2>1. /\ dcwTodo[t] # <<>> /\ Head(dcwTodo[t]) = "close"
        /\ Tail(dcwTodo[t]) \in {<<"retap", "attach">>, <<"retap", "attach", "enable">>}
    BY <1>6, PlanSteps DEF SideTwo!Close, SideTwo!At
  <2>2. PICK s \in {<<"retap", "attach">>, <<"retap", "attach", "enable">>} :
          dcwTodo' = [dcwTodo EXCEPT ![t] = s]
    BY <1>6, <2>1, Joined, Zenon DEF SideTwo!Close, SideTwo!Then
  <2>3. s \in Plans /\ s # <<>> /\ Head(s) = "retap"
    BY DEF Plans
  <2> QED BY <1>0, <1>6, <2>1, <2>2, <2>3 DEF SideTwo!Close
<1>7. ASSUME NEW t \in Pair, SideTwo!Retap(t) PROVE SideTwoInv'
  <2>1. /\ dcwTodo[t] # <<>> /\ Head(dcwTodo[t]) = "retap"
        /\ Tail(dcwTodo[t]) \in {<<"attach">>, <<"attach", "enable">>}
    BY <1>7, PlanSteps DEF SideTwo!Retap, SideTwo!At
  <2>2. PICK s \in {<<"attach">>, <<"attach", "enable">>} : dcwTodo' = [dcwTodo EXCEPT ![t] = s]
    BY <1>7, <2>1, Joined DEF SideTwo!Retap, SideTwo!Then
  <2>3. s \in Plans /\ s # <<>> /\ Head(s) = "attach"
    BY DEF Plans
  <2> QED BY <1>7, <2>1, <2>2, <2>3 DEF SideTwo!Retap
<1>8. ASSUME NEW t \in Pair, SideTwo!Attach(t) PROVE SideTwoInv'
  <2>1. dcwTodo[t] # <<>> /\ Head(dcwTodo[t]) = "attach" /\ Tail(dcwTodo[t]) \in {<<>>, <<"enable">>}
    BY <1>8, PlanSteps DEF SideTwo!Attach, SideTwo!At
  <2>2. PICK s \in {<<>>, <<"enable">>} : dcwTodo' = [dcwTodo EXCEPT ![t] = s]
    BY <1>8, <2>1, Joined DEF SideTwo!Attach, SideTwo!Then
  <2>3. s \in Plans /\ (s = <<>> \/ Head(s) = "enable")
    BY DEF Plans
  <2> QED BY <1>8, <2>1, <2>2, <2>3 DEF SideTwo!Attach
<1>9. ASSUME NEW t \in Pair, SideTwo!SetParams(t) PROVE SideTwoInv'
  <2>1. dcwTodo[t] # <<>> /\ Head(dcwTodo[t]) = "params" /\ Tail(dcwTodo[t]) = <<>>
    BY <1>9, PlanSteps DEF SideTwo!SetParams, SideTwo!At
  <2>2. PICK s \in {<<>>, <<"disable", "enable">>} : dcwTodo' = [dcwTodo EXCEPT ![t] = s]
    BY <1>9, <2>1, Joined, Zenon DEF SideTwo!SetParams, SideTwo!Then
  <2>3. s \in Plans /\ (s = <<>> \/ Head(s) = "disable")
    BY DEF Plans
  <2> QED BY <1>9, <2>1, <2>2, <2>3 DEF SideTwo!SetParams
<1>10. ASSUME SideTwo!Rebuild PROVE SideTwoInv'
  BY <1>10 DEF SideTwo!Rebuild
<1>11. ASSUME NEW p \in Procs, SideTwo!Dies(p) \/ SideTwo!Forget(p) PROVE SideTwoInv'
  BY <1>0, <1>11 DEF SideTwo!Dies, SideTwo!Forget
<1> QED BY <1>1, <1>2, <1>3, <1>4, <1>5, <1>6, <1>7, <1>8, <1>9, <1>10, <1>11
        DEF SideTwo!Next, SideTwo!Step

-----------------------------------------------------------------------------
(* One caller of a sidecar.                                                *)

SideOneTypes ==
    /\ dcwEng \in Procs \cup {"none"} /\ dcwOn \in BOOLEAN /\ tap \in BOOLEAN
    /\ dcwProc \in [Procs -> {"free", "runs", "died", "closed"}]
    /\ dcwTodo \in [Single -> Plans]
    /\ got \in [Single -> Procs \cup {"none"}]
    /\ seen \in [Single -> BOOLEAN] /\ old \subseteq Single

\* What runs is with the radio, or in the hands of the call.
Accounted ==
    /\ \A p \in Procs : dcwProc[p] = "runs" => dcwEng = p \/ \E t \in Single : got[t] = p
    /\ \A t \in Single : got[t] # "none" =>
         dcwTodo[t] # <<>> /\ Head(dcwTodo[t]) \in {"keep", "close"}
    /\ \A t \in Single :
         dcwTodo[t] # <<>> /\ Head(dcwTodo[t]) \in {"start", "keep"} => dcwEng = "none"

\* The tap is right, or the call is still to set it.
TapDue ==
    \A t \in Single :
      /\ dcwTodo[t] = <<>> \/ Head(dcwTodo[t]) \in {"enable", "disable", "params", "start"}
           => tap = dcwOn
      /\ dcwTodo[t] # <<>> /\ Head(dcwTodo[t]) = "attach" =>
           /\ t \in old => tap = dcwOn
           /\ t \notin old => seen[t] = dcwOn

SideOneInv == SideOneTypes /\ Accounted /\ TapDue

(* A step of the one caller keeps account of the engines, and owes the     *)
(* chain no more than its call will set (SetDeepCWEnabled, retapCW).       *)
LEMMA SideOneStep ==
    ASSUME ControlAssumption, SideOneInv, SideOne!Next
    PROVE  SideOneInv'
<1> USE DEF SideOneInv, SideOneTypes, Accounted, TapDue
<1>0. "none" \notin Procs /\ \E solo : Single = {solo}
  BY DEF ControlAssumption
<1>1. ASSUME NEW t \in Single, SideOne!Enter(t) PROVE SideOneInv'
  <2>1. PICK call \in {"enable", "disable", "params"} : dcwTodo' = [dcwTodo EXCEPT ![t] = <<call>>]
    BY <1>1 DEF SideOne!Enter
  <2>2. <<call>> \in Plans /\ <<call>> # <<>> /\ Head(<<call>>) = call
    BY DEF Plans
  <2> QED BY <1>0, <1>1, <2>1, <2>2 DEF SideOne!Enter
<1>2. ASSUME NEW t \in Single, SideOne!Enable(t) PROVE SideOneInv'
  <2>1. dcwTodo[t] # <<>> /\ Head(dcwTodo[t]) = "enable" /\ Tail(dcwTodo[t]) = <<>>
    BY <1>2, PlanSteps DEF SideOne!Enable, SideOne!At
  <2>2. dcwTodo' = [dcwTodo EXCEPT ![t] = IF dcwEng = "none" THEN <<"start">> ELSE <<>>]
    BY <1>2, <2>1, Joined DEF SideOne!Enable, SideOne!Then
  <2>3. <<>> \in Plans /\ <<"start">> \in Plans /\ <<"start">> # <<>> /\ Head(<<"start">>) = "start"
    BY DEF Plans
  <2> QED BY <1>0, <1>2, <2>1, <2>2, <2>3 DEF SideOne!Enable
<1>3. ASSUME NEW t \in Single, SideOne!Start(t) PROVE SideOneInv'
  <2>1. dcwTodo[t] # <<>> /\ Head(dcwTodo[t]) = "start" /\ Tail(dcwTodo[t]) = <<>>
    BY <1>3, PlanSteps DEF SideOne!Start, SideOne!At
  <2>2. <<>> \in Plans /\ <<"keep", "retap", "attach">> \in Plans
        /\ <<"keep", "retap", "attach">> # <<>> /\ Head(<<"keep", "retap", "attach">>) = "keep"
    BY DEF Plans
  <2>3. UNCHANGED <<dcwEng, dcwOn, tap, seen, old>>
    BY <1>3 DEF SideOne!Start
  <2>4. CASE dcwTodo' = [dcwTodo EXCEPT ![t] = <<>>] /\ UNCHANGED <<dcwProc, got>>
    BY <1>0, <2>1, <2>2, <2>3, <2>4
  <2>5. ASSUME NEW p \in Procs, dcwProc[p] = "free", dcwProc' = [dcwProc EXCEPT ![p] = "runs"],
               got' = [got EXCEPT ![t] = p],
               dcwTodo' = [dcwTodo EXCEPT ![t] = <<"keep", "retap", "attach">>]
        PROVE  SideOneInv'
    BY <1>0, <2>1, <2>2, <2>3, <2>5
  <2>6. <<>> \o Tail(dcwTodo[t]) = <<>>
        /\ <<"keep", "retap", "attach">> \o Tail(dcwTodo[t]) = <<"keep", "retap", "attach">>
    BY <2>1, Joined, Zenon
  <2> QED BY <1>3, <2>4, <2>5, <2>6 DEF SideOne!Start, SideOne!Then
<1>4. ASSUME NEW t \in Single, SideOne!Keep(t) PROVE SideOneInv'
  <2>1. dcwTodo[t] # <<>> /\ Head(dcwTodo[t]) = "keep" /\ Tail(dcwTodo[t]) = <<"retap", "attach">>
    BY <1>4, PlanSteps DEF SideOne!Keep, SideOne!At
  <2>2. dcwTodo' = [dcwTodo EXCEPT ![t] = <<"retap", "attach">>]
    BY <1>4, <2>1, Joined, Zenon DEF SideOne!Keep, SideOne!Then
  <2>3. <<"retap", "attach">> \in Plans /\ <<"retap", "attach">> # <<>>
        /\ Head(<<"retap", "attach">>) = "retap"
    BY DEF Plans
  <2> QED BY <1>0, <1>4, <2>1, <2>2, <2>3 DEF SideOne!Keep
<1>5. ASSUME NEW t \in Single, SideOne!Disable(t) PROVE SideOneInv'
  <2>1. dcwTodo[t] # <<>> /\ Head(dcwTodo[t]) = "disable" /\ Tail(dcwTodo[t]) \in {<<>>, <<"enable">>}
    BY <1>5, PlanSteps DEF SideOne!Disable, SideOne!At
  <2>2. PICK s \in {<<"close", "retap", "attach">>, <<"close", "retap", "attach", "enable">>} :
          dcwTodo' = [dcwTodo EXCEPT ![t] = s]
    BY <1>5, <2>1, Joined, Zenon DEF SideOne!Disable, SideOne!Then
  <2>3. s \in Plans /\ s # <<>> /\ Head(s) = "close"
    BY DEF Plans
  <2> QED BY <1>0, <1>5, <2>1, <2>2, <2>3, Zenon DEF SideOne!Disable
<1>6. ASSUME NEW t \in Single, SideOne!Close(t) PROVE SideOneInv'
  <2>1. /\ dcwTodo[t] # <<>> /\ Head(dcwTodo[t]) = "close"
        /\ Tail(dcwTodo[t]) \in {<<"retap", "attach">>, <<"retap", "attach", "enable">>}
    BY <1>6, PlanSteps DEF SideOne!Close, SideOne!At
  <2>2. PICK s \in {<<"retap", "attach">>, <<"retap", "attach", "enable">>} :
          dcwTodo' = [dcwTodo EXCEPT ![t] = s]
    BY <1>6, <2>1, Joined DEF SideOne!Close, SideOne!Then
  <2>3. s \in Plans /\ s # <<>> /\ Head(s) = "retap"
    BY DEF Plans
  <2> QED BY <1>0, <1>6, <2>1, <2>2, <2>3 DEF SideOne!Close
<1>7. ASSUME NEW t \in Single, SideOne!Retap(t) PROVE SideOneInv'
  <2>1. /\ dcwTodo[t] # <<>> /\ Head(dcwTodo[t]) = "retap"
        /\ Tail(dcwTodo[t]) \in {<<"attach">>, <<"attach", "enable">>}
    BY <1>7, PlanSteps DEF SideOne!Retap, SideOne!At
  <2>2. PICK s \in {<<"attach">>, <<"attach", "enable">>} : dcwTodo' = [dcwTodo EXCEPT ![t] = s]
    BY <1>7, <2>1, Joined DEF SideOne!Retap, SideOne!Then
  <2>3. s \in Plans /\ s # <<>> /\ Head(s) = "attach"
    BY DEF Plans
  <2> QED BY <1>0, <1>7, <2>1, <2>2, <2>3 DEF SideOne!Retap
<1>8. ASSUME NEW t \in Single, SideOne!Attach(t) PROVE SideOneInv'
  <2>1. dcwTodo[t] # <<>> /\ Head(dcwTodo[t]) = "attach" /\ Tail(dcwTodo[t]) \in {<<>>, <<"enable">>}
    BY <1>8, PlanSteps DEF SideOne!Attach, SideOne!At
  <2>2. PICK s \in {<<>>, <<"enable">>} : dcwTodo' = [dcwTodo EXCEPT ![t] = s]
    BY <1>8, <2>1, Joined, Zenon DEF SideOne!Attach, SideOne!Then
  <2>3. s \in Plans /\ (s = <<>> \/ Head(s) = "enable")
    BY DEF Plans
  <2> QED BY <1>0, <1>8, <2>1, <2>2, <2>3 DEF SideOne!Attach
<1>9. ASSUME NEW t \in Single, SideOne!SetParams(t) PROVE SideOneInv'
  <2>1. dcwTodo[t] # <<>> /\ Head(dcwTodo[t]) = "params" /\ Tail(dcwTodo[t]) = <<>>
    BY <1>9, PlanSteps DEF SideOne!SetParams, SideOne!At
  <2>2. PICK s \in {<<>>, <<"disable", "enable">>} : dcwTodo' = [dcwTodo EXCEPT ![t] = s]
    BY <1>9, <2>1, Joined DEF SideOne!SetParams, SideOne!Then
  <2>3. s \in Plans /\ (s = <<>> \/ Head(s) = "disable")
    BY DEF Plans
  <2> QED BY <1>0, <1>9, <2>1, <2>2, <2>3 DEF SideOne!SetParams
<1>10. ASSUME SideOne!Rebuild PROVE SideOneInv'
  BY <1>10 DEF SideOne!Rebuild
<1>11. ASSUME NEW p \in Procs, SideOne!Dies(p) \/ SideOne!Forget(p) PROVE SideOneInv'
  BY <1>0, <1>11 DEF SideOne!Dies, SideOne!Forget
<1> QED BY <1>1, <1>2, <1>3, <1>4, <1>5, <1>6, <1>7, <1>8, <1>9, <1>10, <1>11
        DEF SideOne!Next, SideOne!Step

-----------------------------------------------------------------------------
(* The noise reduction (NoiseReducer).                                     *)

NoiseTypes ==
    /\ nrEng \in Procs \cup {"none"} /\ nrProc \in [Procs -> {"free", "runs", "hung", "gone"}]
    /\ pc \in [Single -> {"out", "want", "close", "unlock", "start", "keep"}]
    /\ new \in [Single -> Procs \cup {"none"}]

\* The engine that session's block goes through is no reason to run: the
\* radio or a call knows each process.
NoiseInv ==
    /\ NoiseTypes
    /\ \A p \in Procs : nrProc[p] \in {"runs", "hung"} => nrEng = p \/ \E t \in Single : new[t] = p
    /\ \A t \in Single : pc[t] \in {"unlock", "start", "keep"} => nrEng = "none"
    /\ \A t \in Single : new[t] # "none" => pc[t] = "keep"

(* A step of the noise reduction leaves no process that neither the radio  *)
(* nor the call knows (SetNREnabled, Close).                               *)
LEMMA NoiseStep ==
    ASSUME ControlAssumption, NoiseInv, NoiseOne!Next
    PROVE  NoiseInv'
<1> USE DEF NoiseInv, NoiseTypes
<1>0. "none" \notin Procs /\ \E solo : Single = {solo}
  BY DEF ControlAssumption
<1>1. CASE NoiseOne!Audio
  BY <1>1 DEF NoiseOne!Audio, NoiseOne!NextBlock, NoiseOne!TakeEngine, NoiseOne!Answered,
              NoiseOne!procs, NoiseOne!caller
<1>2. ASSUME NEW t \in Single, NoiseOne!Call(t) \/ NoiseOne!Lock(t) \/ NoiseOne!Unlock(t)
      PROVE  NoiseInv'
  BY <1>0, <1>2 DEF NoiseOne!Call, NoiseOne!Lock, NoiseOne!Unlock, NoiseOne!procs
<1>3. ASSUME NEW t \in Single, NoiseOne!CloseEngine(t) PROVE NoiseInv'
  BY <1>0, <1>3 DEF NoiseOne!CloseEngine
<1>4. ASSUME NEW t \in Single, NoiseOne!Start(t) PROVE NoiseInv'
  BY <1>0, <1>4 DEF NoiseOne!Start, NoiseOne!procs
<1>5. ASSUME NEW t \in Single, NoiseOne!Keep(t) PROVE NoiseInv'
  BY <1>0, <1>5 DEF NoiseOne!Keep, NoiseOne!procs
<1>6. ASSUME NEW p \in Procs, NoiseOne!Dies(p) \/ NoiseOne!Hangs(p) \/ NoiseOne!Forget(p)
      PROVE  NoiseInv'
  BY <1>0, <1>6 DEF NoiseOne!Dies, NoiseOne!Hangs, NoiseOne!Forget, NoiseOne!caller
<1> QED BY <1>1, <1>2, <1>3, <1>4, <1>5, <1>6 DEF NoiseOne!Next, NoiseOne!Switch

-----------------------------------------------------------------------------
(* The capture rate: what a call may have left to do (CaptureRate).        *)

RatePlans ==
    {<<>>}
      \cup {<<RateTwo!Task(d, a)>> :
              d \in {"rate", "adsb", "mode", "adsbrate", "rebuild", "close"}, a \in Nat}
      \cup {<<RateTwo!Task("dsp", a), RateTwo!Task("rebuild", 0)>> : a \in Nat}

(* The package variable's step is followed by the rebuild of the chain,    *)
(* every other one by nothing (SetCaptureRate).                            *)
LEMMA RateSteps ==
    ASSUME NEW s \in RatePlans, s # <<>>
    PROVE  /\ Head(s).do \in {"rate", "adsb", "mode", "adsbrate", "dsp", "rebuild", "close"}
           /\ Head(s).arg \in Nat
           /\ Tail(s) = IF Head(s).do = "dsp" THEN <<RateTwo!Task("rebuild", 0)>> ELSE <<>>
  <1>1. ASSUME NEW d \in {"rate", "adsb", "mode", "adsbrate", "rebuild", "close"}, NEW a \in Nat,
               s = <<RateTwo!Task(d, a)>>
        PROVE  Head(s).do = d /\ Head(s).arg = a /\ Tail(s) = <<>>
    BY <1>1, Tails DEF RateTwo!Task
  <1>2. ASSUME NEW a \in Nat, s = <<RateTwo!Task("dsp", a), RateTwo!Task("rebuild", 0)>>
        PROVE  Head(s).do = "dsp" /\ Head(s).arg = a /\ Tail(s) = <<RateTwo!Task("rebuild", 0)>>
    BY <1>2, Tails DEF RateTwo!Task
  <1> QED BY <1>1, <1>2 DEF RatePlans

(* A plan of one step, and the two that follow a choice (CaptureRate).     *)
LEMMA RatePlanIn ==
    /\ <<>> \in RatePlans
    /\ \A d \in {"rate", "adsb", "mode", "adsbrate", "rebuild", "close"}, a \in Nat :
         /\ <<RateTwo!Task(d, a)>> \in RatePlans /\ <<RateTwo!Task(d, a)>> # <<>>
         /\ Head(<<RateTwo!Task(d, a)>>).do = d /\ Head(<<RateTwo!Task(d, a)>>).arg = a
    /\ \A a \in Nat :
         /\ <<RateTwo!Task("dsp", a), RateTwo!Task("rebuild", 0)>> \in RatePlans
         /\ <<RateTwo!Task("dsp", a), RateTwo!Task("rebuild", 0)>> # <<>>
         /\ Head(<<RateTwo!Task("dsp", a), RateTwo!Task("rebuild", 0)>>).do = "dsp"
         /\ Head(<<RateTwo!Task("dsp", a), RateTwo!Task("rebuild", 0)>>).arg = a
  <1>1. ASSUME NEW d \in {"rate", "adsb", "mode", "adsbrate", "rebuild", "close"}, NEW a \in Nat
        PROVE  /\ <<RateTwo!Task(d, a)>> \in RatePlans /\ <<RateTwo!Task(d, a)>> # <<>>
               /\ Head(<<RateTwo!Task(d, a)>>).do = d /\ Head(<<RateTwo!Task(d, a)>>).arg = a
    <2>1. <<RateTwo!Task(d, a)>> \in RatePlans
      BY DEF RatePlans
    <2> QED BY <2>1 DEF RateTwo!Task
  <1>2. ASSUME NEW a \in Nat
        PROVE  /\ <<RateTwo!Task("dsp", a), RateTwo!Task("rebuild", 0)>> \in RatePlans
               /\ <<RateTwo!Task("dsp", a), RateTwo!Task("rebuild", 0)>> # <<>>
               /\ Head(<<RateTwo!Task("dsp", a), RateTwo!Task("rebuild", 0)>>).do = "dsp"
               /\ Head(<<RateTwo!Task("dsp", a), RateTwo!Task("rebuild", 0)>>).arg = a
    <2>1. <<RateTwo!Task("dsp", a), RateTwo!Task("rebuild", 0)>> \in RatePlans
      BY DEF RatePlans
    <2> QED BY <2>1 DEF RateTwo!Task
  <1> QED BY <1>1, <1>2 DEF RatePlans

(* Nothing after a plan leaves it as it is (CaptureRate, Then).            *)
LEMMA RateAlone ==
    \A s \in RatePlans : s \o <<>> = s
  BY Alone DEF RatePlans

(* The two instances of the component have the same tasks.                 *)
LEMMA SameTask ==
    \A d, a : RateOne!Task(d, a) = RateTwo!Task(d, a)
  BY DEF RateOne!Task, RateTwo!Task

(* The watchdog knows every rate a session may ask for (session).          *)
LEMMA SnapsOffered ==
    ASSUME NEW r \in RateTwo!Offered
    PROVE  RateTwo!Snap(r) # 0
<1> DEFINE Near == {k \in RateTwo!Known : 85 * k <= 100 * r /\ 100 * r <= 115 * k}
           Least == CHOOSE k \in Near : \A l \in Near : k <= l
<1>1. \E k \in Near : \A l \in Near : k <= l
  <2>1. CASE r = 256
    <3>1. 256 \in Near /\ \A l \in Near : 256 <= l
      BY <2>1 DEF RateTwo!Known, RateTwo!Offered
    <3> QED BY <3>1
  <2>2. CASE r = 1024
    <3>1. 1024 \in Near /\ \A l \in Near : 1024 <= l
      BY <2>2 DEF RateTwo!Known, RateTwo!Offered
    <3> QED BY <3>1
  <2>3. CASE r = 1536
    <3>1. 1536 \in Near /\ \A l \in Near : 1536 <= l
      BY <2>3 DEF RateTwo!Known, RateTwo!Offered
    <3> QED BY <3>1
  <2>4. CASE r = 1792 \/ r = 2048
    <3>1. CASE 1536 \in Near
      <4>1. 1536 \in Near /\ \A l \in Near : 1536 <= l
        BY <2>4, <3>1 DEF RateTwo!Known, RateTwo!Offered
      <4> QED BY <4>1
    <3>2. CASE 1536 \notin Near
      <4>1. 1792 \in Near /\ \A l \in Near : 1792 <= l
        BY <2>4, <3>2 DEF RateTwo!Known, RateTwo!Offered
      <4> QED BY <4>1
    <3> QED BY <3>1, <3>2
  <2>5. CASE r = 2400
    <3>1. 2400 \in Near /\ \A l \in Near : 2400 <= l
      BY <2>5 DEF RateTwo!Known, RateTwo!Offered
    <3> QED BY <3>1
  <2>6. CASE r = 2560
    <3>1. 2400 \in Near /\ \A l \in Near : 2400 <= l
      BY <2>6 DEF RateTwo!Known, RateTwo!Offered
    <3> QED BY <3>1
  <2>7. CASE r = 2880 \/ r = 3200
    <3>1. CASE 2560 \in Near
      <4>1. 2560 \in Near /\ \A l \in Near : 2560 <= l
        BY <2>7, <3>1 DEF RateTwo!Known, RateTwo!Offered
      <4> QED BY <4>1
    <3>2. CASE 2560 \notin Near
      <4>1. 2880 \in Near /\ \A l \in Near : 2880 <= l
        BY <2>7, <3>2 DEF RateTwo!Known, RateTwo!Offered
      <4> QED BY <4>1
    <3> QED BY <3>1, <3>2
  <2> QED BY <2>1, <2>2, <2>3, <2>4, <2>5, <2>6, <2>7 DEF RateTwo!Offered
<1>2. Least \in Near
  BY <1>1
<1>3. 0 \notin Near
  BY DEF RateTwo!Known, RateTwo!Offered
<1>4. RateTwo!Snap(r) = Least
  <2>1. Near # {}
    BY <1>1
  <2> QED BY <2>1 DEF RateTwo!Snap
<1> QED BY <1>2, <1>3, <1>4

-----------------------------------------------------------------------------
(* Two callers of the capture rate.                                        *)

\* The call is about to rebuild the chain and to close the session it finds,
\* or has rebuilt it and closes the session that runs.
WillClose(t) ==
    /\ steps[t] # <<>>
    /\ Head(steps[t]).do = "rebuild" \/ (Head(steps[t]).do = "close" /\ t \in mine)

RateTwoTypes ==
    /\ iqRate \in RateTwo!Offered /\ server \in RateTwo!Offered
    /\ steps \in [Pair -> RatePlans] /\ mine \subseteq Pair
    /\ adsbBk \in Nat /\ session \in {"down", "setup", "up"} /\ dog \in {"measure", "rebuild", "done"}

\* What the watchdog goes by is what the chain was built for, and what it
\* found is what the chain will be built for, or the session is about to end.
RateTwoInv ==
    /\ RateTwoTypes
    /\ session = "setup" => dog = "measure"
    /\ session # "down" /\ dog = "measure" => chain = dspRate \/ \E t \in Pair : WillClose(t)
    /\ session = "up" /\ dog = "rebuild" =>
         dspRate = RateTwo!Snap(server) \/ \E t \in Pair : WillClose(t)
    /\ session = "up" /\ dog = "done" =>
         \/ dspRate = RateTwo!Snap(server) /\ chain = dspRate
         \/ \E t \in Pair : WillClose(t)

(* A step of a call, of the session or of the watchdog leaves the chain    *)
(* dimensioned for the verdict, or the session to be closed by a call      *)
(* (SetCaptureRate, session).                                              *)
LEMMA RateTwoStep ==
    ASSUME RateTwoInv, RateTwo!Next
    PROVE  RateTwoInv'
<1>0. steps \in [Pair -> RatePlans] /\ RateTwoTypes
  BY DEF RateTwoInv, RateTwoTypes
<1>1. ASSUME NEW t \in Pair, RateTwo!Enter(t) PROVE RateTwoInv'
  <2>1. /\ <<RateTwo!Task("rate", 512)>> \in RatePlans /\ <<RateTwo!Task("rate", 2048)>> \in RatePlans
        /\ <<RateTwo!Task("adsb", 0)>> \in RatePlans /\ <<RateTwo!Task("adsb", 1)>> \in RatePlans
        /\ <<RateTwo!Task("mode", 0)>> \in RatePlans
    BY RatePlanIn
  <2>2. steps[t] = <<>> /\ UNCHANGED <<iqRate, dspRate, chain, server, session, dog, mine, adsbBk>>
    BY <1>1 DEF RateTwo!Enter, RateTwo!stream, RateTwo!dog, RateTwo!adsbs
  <2>3. steps' \in [Pair -> RatePlans] /\ \A u \in Pair \ {t} : steps'[u] = steps[u]
    BY <1>0, <1>1, <2>1 DEF RateTwo!Enter
  <2>4. ASSUME NEW u \in Pair, WillClose(u) PROVE WillClose(u)'
    BY <2>2, <2>3, <2>4 DEF WillClose
  <2> QED BY <2>2, <2>3, <2>4 DEF RateTwoInv, RateTwoTypes
<1>2. ASSUME NEW t \in Pair, RateTwo!SetCaptureRate(t) PROVE RateTwoInv'
  <2>1. steps[t] # <<>> /\ Head(steps[t]).do = "rate" /\ Tail(steps[t]) = <<>> /\ Head(steps[t]).arg \in Nat
    BY <1>0, <1>2, RateSteps DEF RateTwo!SetCaptureRate, RateTwo!At
  <2> DEFINE Two == <<RateTwo!Task("dsp", Head(steps[t]).arg), RateTwo!Task("rebuild", 0)>>
  <2>2. Two \in RatePlans /\ <<>> \in RatePlans
    BY <2>1, RatePlanIn
  <2>3. steps' = [steps EXCEPT ![t] = Two \o Tail(@)] \/ steps' = [steps EXCEPT ![t] = <<>> \o Tail(@)]
    BY <1>2 DEF RateTwo!SetCaptureRate, RateTwo!Then, RateTwo!Arg
  <2> HIDE DEF Two
  <2>4. Two \o Tail(steps[t]) = Two /\ <<>> \o Tail(steps[t]) = <<>>
    BY <2>1, <2>2, RateAlone
  <2>5. iqRate' \in RateTwo!Offered /\ UNCHANGED <<dspRate, chain, server, session, dog, mine, adsbBk>>
    BY <1>0, <1>2 DEF RateTwo!SetCaptureRate, RateTwo!stream, RateTwo!dog, RateTwo!adsbs, RateTwoTypes
  <2>6. steps' \in [Pair -> RatePlans] /\ \A u \in Pair \ {t} : steps'[u] = steps[u]
    BY <1>0, <2>2, <2>3, <2>4
  <2>7. ASSUME NEW u \in Pair, WillClose(u) PROVE WillClose(u)'
    BY <2>1, <2>5, <2>6, <2>7 DEF WillClose
  <2> QED BY <2>5, <2>6, <2>7 DEF RateTwoInv, RateTwoTypes
<1>3. ASSUME NEW t \in Pair, RateTwo!SetIQRate(t) PROVE RateTwoInv'
  <2>1. steps[t] # <<>> /\ Head(steps[t]).do = "dsp" /\ Tail(steps[t]) = <<RateTwo!Task("rebuild", 0)>>
    BY <1>0, <1>3, RateSteps DEF RateTwo!SetIQRate, RateTwo!At
  <2>2. steps' = [steps EXCEPT ![t] = <<RateTwo!Task("rebuild", 0)>>]
    BY <1>3, <2>1, Alone DEF RateTwo!SetIQRate, RateTwo!Then
  <2>3. /\ <<RateTwo!Task("rebuild", 0)>> \in RatePlans /\ <<RateTwo!Task("rebuild", 0)>> # <<>>
        /\ Head(<<RateTwo!Task("rebuild", 0)>>).do = "rebuild"
    BY RatePlanIn
  <2>4. UNCHANGED <<iqRate, chain, server, session, dog, mine, adsbBk>>
    BY <1>3 DEF RateTwo!SetIQRate, RateTwo!stream, RateTwo!dog, RateTwo!adsbs
  <2>5. steps' \in [Pair -> RatePlans] /\ steps'[t] = <<RateTwo!Task("rebuild", 0)>>
    BY <1>0, <2>2, <2>3
  <2>6. WillClose(t)'
    BY <2>3, <2>5 DEF WillClose
  <2> QED BY <2>4, <2>5, <2>6 DEF RateTwoInv, RateTwoTypes
<1>4. ASSUME NEW t \in Pair, RateTwo!CaptureRebuild(t) PROVE RateTwoInv'
  <2>1. steps[t] # <<>> /\ Head(steps[t]).do = "rebuild" /\ Tail(steps[t]) = <<>>
    BY <1>0, <1>4, RateSteps DEF RateTwo!CaptureRebuild, RateTwo!At
  <2>2. steps' = [steps EXCEPT ![t] = <<RateTwo!Task("close", 0)>>]
    BY <1>4, <2>1, Alone DEF RateTwo!CaptureRebuild, RateTwo!Then
  <2>3. /\ <<RateTwo!Task("close", 0)>> \in RatePlans /\ <<RateTwo!Task("close", 0)>> # <<>>
        /\ Head(<<RateTwo!Task("close", 0)>>).do = "close"
    BY RatePlanIn
  <2>4. /\ UNCHANGED <<iqRate, server, session, dog, adsbBk>>
        /\ mine' = IF session = "down" THEN mine \ {t} ELSE mine \cup {t}
    BY <1>4 DEF RateTwo!CaptureRebuild, RateTwo!stream, RateTwo!dog, RateTwo!adsbs
  <2>5. steps' \in [Pair -> RatePlans] /\ steps'[t] = <<RateTwo!Task("close", 0)>>
    BY <1>0, <2>2, <2>3
  <2>6. mine' \subseteq Pair /\ (session # "down" => WillClose(t)')
    BY <1>0, <2>3, <2>4, <2>5 DEF WillClose, RateTwoTypes
  <2> QED BY <2>4, <2>5, <2>6 DEF RateTwoInv, RateTwoTypes
<1>5. ASSUME NEW t \in Pair, RateTwo!CloseClient(t) PROVE RateTwoInv'
  <2>1. steps[t] # <<>> /\ Head(steps[t]).do = "close" /\ Tail(steps[t]) = <<>>
    BY <1>0, <1>5, RateSteps DEF RateTwo!CloseClient, RateTwo!At
  <2>2. steps' = [steps EXCEPT ![t] = <<>>]
    BY <1>5, <2>1, Alone, Zenon DEF RateTwo!CloseClient, RateTwo!Then
  <2>3. steps' \in [Pair -> RatePlans] /\ UNCHANGED <<iqRate, dspRate, chain, dog, adsbBk>>
    BY <1>0, <1>5, <2>2, RatePlanIn DEF RateTwo!CloseClient, RateTwo!dog, RateTwo!adsbs
  <2>4. CASE t \in mine
    <3>1. session' = "down" /\ mine' = {} /\ server' \in RateTwo!Offered
      BY <1>0, <1>5, <2>4 DEF RateTwo!CloseClient, RateTwo!Offered, RateTwoTypes
    <3> QED BY <2>3, <3>1 DEF RateTwoInv, RateTwoTypes
  <2>5. CASE t \notin mine
    <3>1. UNCHANGED <<server, session, mine>>
      BY <1>5, <2>5 DEF RateTwo!CloseClient, RateTwo!stream
    <3>2. ASSUME NEW u \in Pair, WillClose(u) PROVE WillClose(u)'
      BY <1>0, <2>1, <2>2, <2>5, <3>1, <3>2 DEF WillClose
    <3> QED BY <2>3, <3>1, <3>2 DEF RateTwoInv, RateTwoTypes
  <2> QED BY <2>4, <2>5
<1>6. ASSUME NEW t \in Pair,
             RateTwo!SetMode(t) \/ RateTwo!SetADSBRFEnabled(t) \/ RateTwo!ForceAdsbRate(t)
      PROVE  RateTwoInv'
  <2>1. steps[t] # <<>> /\ Head(steps[t]).do \in {"mode", "adsb", "adsbrate"} /\ Tail(steps[t]) = <<>>
    BY <1>0, <1>6, RateSteps DEF RateTwo!SetMode, RateTwo!SetADSBRFEnabled, RateTwo!ForceAdsbRate, RateTwo!At
  <2> DEFINE AtAdsb == <<RateTwo!Task("adsbrate", 0)>>
             Faster == <<RateTwo!Task("rate", 2400)>>
             Back   == <<RateTwo!Task("rate", adsbBk)>>
             Left(s) == steps' = [steps EXCEPT ![t] = s \o Tail(@)]
  <2>2. <<>> \in RatePlans /\ AtAdsb \in RatePlans /\ Faster \in RatePlans /\ Back \in RatePlans
    <3>1. <<>> \in RatePlans
      BY RatePlanIn
    <3>2. AtAdsb \in RatePlans
      BY RatePlanIn
    <3>3. Faster \in RatePlans
      BY RatePlanIn
    <3>4. Back \in RatePlans
      BY <1>0, RatePlanIn DEF RateTwoTypes
    <3> QED BY <3>1, <3>2, <3>3, <3>4
  <2>3. Left(<<>>) \/ Left(AtAdsb) \/ Left(Faster) \/ Left(Back)
    <3>1. ASSUME RateTwo!SetMode(t) PROVE Left(<<>>)
      BY <3>1 DEF RateTwo!SetMode, RateTwo!Then
    <3>2. ASSUME RateTwo!ForceAdsbRate(t), dspRate # 2400 PROVE Left(Faster)
      BY <3>2 DEF RateTwo!ForceAdsbRate, RateTwo!Then
    <3>3. ASSUME RateTwo!ForceAdsbRate(t), dspRate = 2400 PROVE Left(<<>>)
      BY <3>3 DEF RateTwo!ForceAdsbRate, RateTwo!Then
    <3>4. ASSUME RateTwo!SetADSBRFEnabled(t), RateTwo!Arg(t) = 1 PROVE Left(AtAdsb)
      BY <3>4 DEF RateTwo!SetADSBRFEnabled, RateTwo!Then
    <3>5. ASSUME RateTwo!SetADSBRFEnabled(t), RateTwo!Arg(t) # 1, adsbBk # 0, iqRate = 2400
          PROVE  Left(Back)
      BY <3>5 DEF RateTwo!SetADSBRFEnabled, RateTwo!Then
    <3>6. ASSUME RateTwo!SetADSBRFEnabled(t), RateTwo!Arg(t) # 1, adsbBk = 0 \/ iqRate # 2400
          PROVE  Left(<<>>)
      <4>1. CASE adsbBk = 0
        BY <3>6, <4>1 DEF RateTwo!SetADSBRFEnabled, RateTwo!Then
      <4>2. CASE iqRate # 2400
        BY <3>6, <4>2 DEF RateTwo!SetADSBRFEnabled, RateTwo!Then
      <4> QED BY <3>6, <4>1, <4>2
    <3> HIDE DEF Left, AtAdsb, Faster, Back
    <3> QED BY <1>6, <3>1, <3>2, <3>3, <3>4, <3>5, <3>6
  <2>4. /\ UNCHANGED <<iqRate, dspRate, server, session, dog, mine>> /\ chain' \in {chain, dspRate}
        /\ adsbBk' \in Nat
    <3>1. iqRate \in Nat /\ adsbBk \in Nat
      BY <1>0 DEF RateTwoTypes, RateTwo!Offered
    <3> QED BY <1>6, <3>1
            DEF RateTwo!SetMode, RateTwo!SetADSBRFEnabled, RateTwo!ForceAdsbRate, RateTwo!AdsbBackup,
                RateTwo!stream, RateTwo!dog, RateTwo!adsbs
  <2>5. steps' \in [Pair -> RatePlans] /\ \A u \in Pair \ {t} : steps'[u] = steps[u]
    <3>1. ASSUME NEW s \in RatePlans, Left(s)
          PROVE  steps' \in [Pair -> RatePlans] /\ \A u \in Pair \ {t} : steps'[u] = steps[u]
      <4>1. s \o Tail(steps[t]) \in RatePlans
        BY <2>1, RateAlone, Zenon
      <4> QED BY <1>0, <3>1, <4>1
    <3> HIDE DEF Left, AtAdsb, Faster, Back
    <3> QED BY <2>2, <2>3, <3>1
  <2>6. ASSUME NEW u \in Pair, WillClose(u) PROVE WillClose(u)'
    BY <2>1, <2>4, <2>5, <2>6 DEF WillClose
  <2> QED BY <2>4, <2>5, <2>6 DEF RateTwoInv, RateTwoTypes
<1>7. CASE RateTwo!SetupChain
  BY <1>7 DEF RateTwo!SetupChain, RateTwo!calls, RateTwo!adsbs, RateTwoInv, RateTwoTypes
<1>8. CASE RateTwo!SetupRate
  <2>1. ASSUME NEW u \in Pair, WillClose(u) PROVE WillClose(u)'
    BY <1>8, <2>1 DEF RateTwo!SetupRate, RateTwo!calls, WillClose
  <2> QED BY <1>8, <2>1 DEF RateTwo!SetupRate, RateTwo!calls, RateTwo!dog, RateTwo!adsbs, RateTwoInv, RateTwoTypes
<1>9. CASE RateTwo!SessionEnds
  <2>1. server' \in RateTwo!Offered
    BY <1>0, <1>9 DEF RateTwo!SessionEnds, RateTwo!Offered, RateTwoTypes
  <2> QED BY <1>9, <2>1 DEF RateTwo!SessionEnds, RateTwo!dog, RateTwo!adsbs, RateTwoInv, RateTwoTypes
<1>10. CASE RateTwo!Measure
  <2>1. RateTwo!Snap(server) # 0
    BY <1>0, SnapsOffered DEF RateTwoTypes
  <2>2. UNCHANGED <<iqRate, chain, server, session, steps, mine, adsbBk>> /\ session = "up" /\ dog = "measure"
    BY <1>10 DEF RateTwo!Measure, RateTwo!stream, RateTwo!calls, RateTwo!adsbs
  <2>3. \/ dog' = "done" /\ dspRate' = dspRate /\ RateTwo!Snap(server) = dspRate
        \/ dog' = "rebuild" /\ dspRate' = RateTwo!Snap(server)
        \/ dog' = dog /\ dspRate' = dspRate
    BY <1>10, <2>1 DEF RateTwo!Measure
  <2>4. RateTwo!Snap(server)' = RateTwo!Snap(server)
    BY <2>2 DEF RateTwo!Snap
  <2>5. ASSUME NEW u \in Pair, WillClose(u) PROVE WillClose(u)'
    BY <2>2, <2>5 DEF WillClose
  <2> QED BY <2>2, <2>3, <2>4, <2>5 DEF RateTwoInv, RateTwoTypes
<1>11. CASE RateTwo!Redimension
  <2>1. RateTwo!Snap(server)' = RateTwo!Snap(server)
    BY <1>11 DEF RateTwo!Snap, RateTwo!Redimension, RateTwo!stream
  <2>2. ASSUME NEW u \in Pair, WillClose(u) PROVE WillClose(u)'
    BY <1>11, <2>2 DEF RateTwo!Redimension, RateTwo!calls, WillClose
  <2> QED BY <1>11, <2>1, <2>2
          DEF RateTwo!Redimension, RateTwo!stream, RateTwo!calls, RateTwo!adsbs, RateTwoInv, RateTwoTypes
<1> QED BY <1>1, <1>2, <1>3, <1>4, <1>5, <1>6, <1>7, <1>8, <1>9, <1>10, <1>11
        DEF RateTwo!Next, RateTwo!Step

-----------------------------------------------------------------------------
(* One caller, who only switches ADS-B.                                    *)

RateOneInv ==
    /\ iqRate \in {2048, 2400} /\ adsbBk \in {0, 2048} /\ adsb \in BOOLEAN
    /\ adsb <=> adsbBk # 0
    /\ steps \in [Single -> RatePlans]
    /\ \A t \in Single : steps[t] # <<>> =>
         /\ Head(steps[t]).do = "adsb" => Head(steps[t]).arg \in 0..1
         /\ Head(steps[t]).do = "rate" =>
              Head(steps[t]).arg = 2048 \/ (Head(steps[t]).arg = 2400 /\ adsb)
         /\ Head(steps[t]).do = "adsbrate" => adsb
    /\ iqRate = 2400 =>
         adsb \/ \E t \in Single : /\ steps[t] # <<>> /\ Head(steps[t]).do = "rate"
                                   /\ Head(steps[t]).arg = 2048

\* A step puts s in place of the one that the call did.
StepsLeft(t, s) == steps' = [steps EXCEPT ![t] = s \o Tail(@)]

(* What a step leaves is what it puts, where nothing followed (Then).      *)
LEMMA LeftAlone ==
    ASSUME NEW t \in Single, steps \in [Single -> RatePlans], Tail(steps[t]) = <<>>,
           NEW s \in RatePlans, StepsLeft(t, s)
    PROVE  steps' \in [Single -> RatePlans] /\ steps'[t] = s
  <1>1. s \o Tail(steps[t]) = s
    BY RateAlone
  <1> QED BY <1>1 DEF StepsLeft

(* A step leaves the rate as it was before ADS-B, or ADS-B on, or the call *)
(* that gives the rate back under way (SetADSBRFEnabled).                  *)
LEMMA RateOneStep ==
    ASSUME ControlAssumption, RateOneInv, RateOne!Next
    PROVE  RateOneInv'
<1>0. steps \in [Single -> RatePlans] /\ \A t \in Single : Single = {t}
  BY DEF RateOneInv, ControlAssumption
<1>1. ASSUME NEW t \in Single, RateOne!Enter(t) PROVE RateOneInv'
  <2>1. /\ <<RateTwo!Task("adsb", 0)>> \in RatePlans /\ <<RateTwo!Task("adsb", 1)>> \in RatePlans
        /\ <<RateTwo!Task("mode", 0)>> \in RatePlans
    BY RatePlanIn
  <2>2. steps[t] = <<>> /\ UNCHANGED <<iqRate, adsb, adsbBk>>
    BY <1>1 DEF RateOne!Enter, RateOne!adsbs
  <2>3. steps' \in [Single -> RatePlans]
        /\ steps'[t] \in {<<RateTwo!Task("adsb", 0)>>, <<RateTwo!Task("adsb", 1)>>, <<RateTwo!Task("mode", 0)>>}
    BY <1>0, <1>1, <2>1, SameTask DEF RateOne!Enter
  <2>4. /\ Head(steps'[t]).do \in {"adsb", "mode"} /\ Head(steps'[t]).arg \in 0..1
    BY <2>3 DEF RateTwo!Task
  <2> QED BY <1>0, <2>2, <2>3, <2>4 DEF RateOneInv
<1>2. ASSUME NEW t \in Single, RateOne!SetCaptureRate(t) PROVE RateOneInv'
  <2>1. steps[t] # <<>> /\ Head(steps[t]).do = "rate" /\ Tail(steps[t]) = <<>> /\ Head(steps[t]).arg \in Nat
    BY <1>0, <1>2, RateSteps DEF RateOne!SetCaptureRate, RateOne!At
  <2> DEFINE Two == <<RateTwo!Task("dsp", Head(steps[t]).arg), RateTwo!Task("rebuild", 0)>>
  <2>2. Two \in RatePlans /\ <<>> \in RatePlans /\ Head(Two).do = "dsp"
    BY <2>1, RatePlanIn
  <2>3. StepsLeft(t, Two) \/ StepsLeft(t, <<>>)
    BY <1>2, SameTask DEF RateOne!SetCaptureRate, RateOne!Then, RateOne!Arg, StepsLeft
  <2>4. iqRate' = Head(steps[t]).arg /\ UNCHANGED <<adsb, adsbBk>>
    BY <1>2, <2>1 DEF RateOne!SetCaptureRate, RateOne!adsbs, RateOne!Arg, RateOne!Offered, RateOneInv
  <2> HIDE DEF Two
  <2>5. steps' \in [Single -> RatePlans] /\ steps'[t] \in {<<>>, Two}
    BY <1>0, <2>1, <2>2, <2>3, LeftAlone
  <2> QED BY <1>0, <2>1, <2>2, <2>4, <2>5 DEF RateOneInv
<1>3. ASSUME NEW t \in Single, RateOne!SetIQRate(t) PROVE RateOneInv'
  <2>1. /\ steps[t] # <<>> /\ Head(steps[t]).do = "dsp"
        /\ Tail(steps[t]) = <<RateTwo!Task("rebuild", 0)>>
    BY <1>0, <1>3, RateSteps DEF RateOne!SetIQRate, RateOne!At
  <2>2. steps' = [steps EXCEPT ![t] = <<RateTwo!Task("rebuild", 0)>>]
    BY <1>3, <2>1, Alone, Zenon DEF RateOne!SetIQRate, RateOne!Then
  <2>3. /\ <<RateTwo!Task("rebuild", 0)>> \in RatePlans
        /\ Head(<<RateTwo!Task("rebuild", 0)>>).do = "rebuild"
    BY RatePlanIn
  <2>4. UNCHANGED <<iqRate, adsb, adsbBk>>
    BY <1>3 DEF RateOne!SetIQRate, RateOne!adsbs
  <2> QED BY <1>0, <2>1, <2>2, <2>3, <2>4 DEF RateOneInv
<1>4. ASSUME NEW t \in Single,
             RateOne!CaptureRebuild(t) \/ RateOne!CloseClient(t) \/ RateOne!SetMode(t)
      PROVE  RateOneInv'
  <2>1. steps[t] # <<>> /\ Head(steps[t]).do \in {"rebuild", "close", "mode"} /\ Tail(steps[t]) = <<>>
    BY <1>0, <1>4, RateSteps DEF RateOne!CaptureRebuild, RateOne!CloseClient, RateOne!SetMode, RateOne!At
  <2>2. /\ <<RateTwo!Task("close", 0)>> \in RatePlans /\ <<>> \in RatePlans
        /\ Head(<<RateTwo!Task("close", 0)>>).do = "close"
    BY RatePlanIn
  <2>3. StepsLeft(t, <<RateTwo!Task("close", 0)>>) \/ StepsLeft(t, <<>>)
    <3>1. CASE RateOne!CaptureRebuild(t)
      BY <3>1, SameTask DEF RateOne!CaptureRebuild, RateOne!Then, StepsLeft
    <3>2. CASE RateOne!CloseClient(t) \/ RateOne!SetMode(t)
      BY <3>2 DEF RateOne!CloseClient, RateOne!SetMode, RateOne!Then, StepsLeft
    <3> QED BY <1>4, <3>1, <3>2
  <2>4. UNCHANGED <<iqRate, adsb, adsbBk>>
    BY <1>4 DEF RateOne!CaptureRebuild, RateOne!CloseClient, RateOne!SetMode, RateOne!adsbs
  <2>5. steps' \in [Single -> RatePlans] /\ steps'[t] \in {<<>>, <<RateTwo!Task("close", 0)>>}
    BY <1>0, <2>1, <2>2, <2>3, LeftAlone
  <2> QED BY <1>0, <2>1, <2>2, <2>4, <2>5 DEF RateOneInv
<1>5. ASSUME NEW t \in Single, RateOne!SetADSBRFEnabled(t) PROVE RateOneInv'
  <2>1. steps[t] # <<>> /\ Head(steps[t]).do = "adsb" /\ Tail(steps[t]) = <<>> /\ Head(steps[t]).arg \in 0..1
    BY <1>0, <1>5, RateSteps DEF RateOne!SetADSBRFEnabled, RateOne!At, RateOneInv
  <2>2. iqRate' = iqRate /\ (adsbBk = 0 => iqRate = 2048)
    BY <1>0, <1>5, <2>1 DEF RateOne!SetADSBRFEnabled, RateOneInv
  <2>3. CASE Head(steps[t]).arg = 1
    <3>0. adsbBk' = IF adsbBk = 0 THEN iqRate ELSE adsbBk
      BY <1>5, <2>3 DEF RateOne!SetADSBRFEnabled, RateOne!Arg, RateOne!AdsbBackup
    <3>1. adsb' = TRUE /\ adsbBk' = 2048
      <4>1. adsb' = (Head(steps[t]).arg = 1)
        BY <1>5 DEF RateOne!SetADSBRFEnabled, RateOne!Arg
      <4>2. adsb' = TRUE
        BY <2>3, <4>1
      <4>3. adsbBk' = 2048
        BY <2>2, <3>0 DEF RateOneInv
      <4> QED BY <4>2, <4>3
    <3>2. StepsLeft(t, <<RateTwo!Task("adsbrate", 0)>>)
      BY <1>5, <2>3, SameTask, Zenon DEF RateOne!SetADSBRFEnabled, RateOne!Arg, RateOne!Then, StepsLeft
    <3>3. /\ <<RateTwo!Task("adsbrate", 0)>> \in RatePlans
          /\ Head(<<RateTwo!Task("adsbrate", 0)>>).do = "adsbrate"
      BY RatePlanIn
    <3>4. steps' \in [Single -> RatePlans] /\ steps'[t] = <<RateTwo!Task("adsbrate", 0)>>
      BY <1>0, <2>1, <3>2, <3>3, LeftAlone
    <3> QED BY <1>0, <2>2, <3>1, <3>3, <3>4 DEF RateOneInv
  <2>4. CASE Head(steps[t]).arg = 0
    <3>0. Head(steps[t]).arg # 1
      BY <2>4
    <3>1. adsb' = FALSE /\ adsbBk' = 0
      <4>1. adsb' = (Head(steps[t]).arg = 1)
        BY <1>5 DEF RateOne!SetADSBRFEnabled, RateOne!Arg
      <4>2. adsb' = FALSE
        BY <3>0, <4>1
      <4>3. adsbBk' = 0
        BY <1>5, <3>0 DEF RateOne!SetADSBRFEnabled, RateOne!Arg, RateOne!AdsbBackup
      <4> QED BY <4>2, <4>3
    <3>2. CASE adsbBk # 0 /\ iqRate = 2400
      <4>1. StepsLeft(t, <<RateTwo!Task("rate", adsbBk)>>)
        BY <1>5, <3>0, <3>2, SameTask, Zenon DEF RateOne!SetADSBRFEnabled, RateOne!Arg, RateOne!Then, StepsLeft
      <4>2. adsbBk = 2048
        BY <3>2 DEF RateOneInv
      <4>3. /\ <<RateTwo!Task("rate", adsbBk)>> \in RatePlans /\ <<RateTwo!Task("rate", adsbBk)>> # <<>>
            /\ Head(<<RateTwo!Task("rate", adsbBk)>>).do = "rate"
            /\ Head(<<RateTwo!Task("rate", adsbBk)>>).arg = 2048
        BY <4>2, RatePlanIn
      <4>4. steps' \in [Single -> RatePlans] /\ steps'[t] = <<RateTwo!Task("rate", adsbBk)>>
        BY <1>0, <2>1, <4>1, <4>3, LeftAlone
      <4>5. /\ steps'[t] # <<>> /\ Head(steps'[t]).do = "rate" /\ Head(steps'[t]).arg = 2048
            /\ iqRate' = 2400
        BY <2>2, <3>2, <4>3, <4>4
      <4>6. adsb' \in BOOLEAN /\ (adsb' <=> adsbBk' # 0) /\ adsbBk' \in {0, 2048}
        BY <3>1, Zenon
      <4>7. \A u \in Single : u = t
        BY <1>0
      <4> QED BY <4>4, <4>5, <4>6, <4>7 DEF RateOneInv
    <3>3. CASE adsbBk = 0 \/ iqRate # 2400
      <4>1. StepsLeft(t, <<>>)
        <5>1. CASE adsbBk = 0
          BY <1>5, <3>0, <5>1 DEF RateOne!SetADSBRFEnabled, RateOne!Arg, RateOne!Then, StepsLeft
        <5>2. CASE iqRate # 2400
          BY <1>5, <3>0, <5>2 DEF RateOne!SetADSBRFEnabled, RateOne!Arg, RateOne!Then, StepsLeft
        <5> QED BY <3>3, <5>1, <5>2
      <4>2. steps' \in [Single -> RatePlans] /\ steps'[t] = <<>>
        BY <1>0, <2>1, <4>1, RatePlanIn, LeftAlone
      <4>3. iqRate' = 2048
        BY <2>2, <3>3 DEF RateOneInv
      <4>6. adsb' \in BOOLEAN /\ (adsb' <=> adsbBk' # 0) /\ adsbBk' \in {0, 2048}
        BY <3>1, Zenon
      <4>7. \A u \in Single : u = t
        BY <1>0
      <4> QED BY <4>2, <4>3, <4>6, <4>7 DEF RateOneInv
    <3> QED BY <3>2, <3>3
  <2> QED BY <2>1, <2>3, <2>4
<1>6. ASSUME NEW t \in Single, RateOne!ForceAdsbRate(t) PROVE RateOneInv'
  <2>1. steps[t] # <<>> /\ Head(steps[t]).do = "adsbrate" /\ Tail(steps[t]) = <<>>
    BY <1>0, <1>6, RateSteps DEF RateOne!ForceAdsbRate, RateOne!At
  <2>2. StepsLeft(t, <<RateTwo!Task("rate", 2400)>>) \/ StepsLeft(t, <<>>)
    <3>1. CASE dspRate # 2400
      <4>1. RateOne!Then(t, <<RateOne!Task("rate", 2400)>>)
        BY <1>6, <3>1 DEF RateOne!ForceAdsbRate
      <4> QED BY <4>1 DEF RateOne!Then, StepsLeft, RateOne!Task, RateTwo!Task
    <3>2. CASE dspRate = 2400
      BY <1>6, <3>2 DEF RateOne!ForceAdsbRate, RateOne!Then, StepsLeft
    <3> QED BY <3>1, <3>2
  <2>3. /\ <<RateTwo!Task("rate", 2400)>> \in RatePlans
        /\ Head(<<RateTwo!Task("rate", 2400)>>).do = "rate"
        /\ Head(<<RateTwo!Task("rate", 2400)>>).arg = 2400
    BY RatePlanIn
  <2>4. UNCHANGED <<iqRate, adsb, adsbBk>>
    BY <1>6 DEF RateOne!ForceAdsbRate, RateOne!adsbs
  <2>5. steps' \in [Single -> RatePlans] /\ steps'[t] \in {<<>>, <<RateTwo!Task("rate", 2400)>>}
    <3>1. <<>> \in RatePlans
      BY RatePlanIn
    <3> QED BY <1>0, <2>1, <2>2, <2>3, <3>1, LeftAlone
  <2> QED BY <1>0, <2>1, <2>3, <2>4, <2>5 DEF RateOneInv
<1>7. CASE RateOne!SetupChain \/ RateOne!SetupRate \/ RateOne!SessionEnds \/ RateOne!Measure
           \/ RateOne!Redimension
  BY <1>7 DEF RateOne!SetupChain, RateOne!SetupRate, RateOne!SessionEnds, RateOne!Measure,
              RateOne!Redimension, RateOne!adsbs, RateOne!calls, RateOneInv
<1> QED BY <1>1, <1>2, <1>3, <1>4, <1>5, <1>6, <1>7 DEF RateOne!Next, RateOne!Step

-----------------------------------------------------------------------------
(* The invariant of the parts of the radio that its goroutines switch.     *)

ControlInv ==
    /\ part = "modes two"   => ModesTwoInv
    /\ part = "modes one"   => ModesOneInv
    /\ part = "rate two"    => RateTwoInv
    /\ part = "rate one"    => RateOneInv
    /\ part = "sidecar two" => SideTwoInv
    /\ part = "sidecar one" => SideOneInv
    /\ part = "noise one"   => NoiseInv

(* No decoder is on, and no call under way, when the receiver starts       *)
(* (New).                                                                  *)
LEMMA ModesBegin ==
    /\ ModesTwo!Init => ModesTwoInv
    /\ ModesOne!Init => ModesOneInv
<1>1. ASSUME ModesTwo!Init PROVE ModesTwoInv
  <2>1. todo \in [Pair -> TwoPlans] /\ \A t \in Pair : todo[t] = <<>>
    BY <1>1 DEF ModesTwo!Init, TwoPlans
  <2>2. \A f \in Decoders, t \in Pair : ~Turns(t, f)
    BY <2>1, Zenon DEF Turns
  <2> QED BY <1>1, <2>1, <2>2 DEF ModesTwo!Init, ModesTwo!Mode, ModesTwoInv
<1>2. ASSUME ModesOne!Init PROVE ModesOneInv
  <2>1. todo \in [Single -> OnePlans] /\ \A t \in Single : todo[t] = <<>>
    BY <1>2 DEF ModesOne!Init, OnePlans
  <2>2. \A t \in Single : ~AisNext(t)
    BY <2>1 DEF AisNext
  <2> QED BY <1>2, <2>1, <2>2 DEF ModesOne!Init, ModesOne!Mode, ModesOneInv
<1> QED BY <1>1, <1>2

(* The rate begins as the chain is dimensioned (New).                      *)
LEMMA RatesBegin ==
    /\ RateTwo!Init => RateTwoInv
    /\ RateOne!Init => RateOneInv
<1>1. ASSUME RateTwo!Init PROVE RateTwoInv
  <2>1. steps \in [Pair -> RatePlans]
    BY <1>1 DEF RateTwo!Init, RatePlans
  <2> QED BY <1>1, <2>1 DEF RateTwo!Init, RateTwoInv, RateTwoTypes, RateTwo!Offered
<1>2. ASSUME RateOne!Init PROVE RateOneInv
  <2>1. steps \in [Single -> RatePlans] /\ \A t \in Single : steps[t] = <<>>
    BY <1>2 DEF RateOne!Init, RatePlans
  <2>2. iqRate = 2048 /\ adsbBk = 0 /\ adsb = FALSE
    BY <1>2 DEF RateOne!Init
  <2>3. ~adsb /\ adsb \in BOOLEAN
    BY <2>2, Zenon
  <2>4. iqRate \in {2048, 2400} /\ iqRate # 2400 /\ adsbBk \in {0, 2048}
    BY <2>2
  <2> QED BY <2>1, <2>2, <2>3, <2>4 DEF RateOneInv
<1> QED BY <1>1, <1>2

(* No engine runs when the receiver starts (New).                          *)
LEMMA EnginesBegin ==
    /\ SideTwo!Init => SideTwoInv
    /\ SideOne!Init => SideOneInv
    /\ NoiseOne!Init => NoiseInv
<1>1. ASSUME SideTwo!Init PROVE SideTwoInv
  <2>1. dcwTodo \in [Pair -> Plans]
    BY <1>1 DEF SideTwo!Init, Plans
  <2> QED BY <1>1, <2>1 DEF SideTwo!Init, SideTwoInv, SideTwoTypes, HeldApart
<1>2. ASSUME SideOne!Init PROVE SideOneInv
  <2>1. dcwTodo \in [Single -> Plans]
    BY <1>2 DEF SideOne!Init, Plans
  <2> QED BY <1>2, <2>1, Zenon DEF SideOne!Init, SideOneInv, SideOneTypes, Accounted, TapDue
<1>3. ASSUME NoiseOne!Init PROVE NoiseInv
  BY <1>3 DEF NoiseOne!Init, NoiseInv, NoiseTypes
<1> QED BY <1>1, <1>2, <1>3

(* A step that changes nothing.                                            *)
LEMMA ControlStays ==
    ASSUME ControlInv, UNCHANGED AllVars
    PROVE  ControlInv'
<1>1. UNCHANGED <<part, modes, rates, sidecar, noise>>
  BY DEF AllVars, control
<1>2. ModesTwoInv => ModesTwoInv'
  <2>1. \A t \in Pair, f \in Decoders : Turns(t, f)' <=> Turns(t, f)
    BY <1>1 DEF modes, Turns
  <2> QED BY <1>1, <2>1 DEF modes, ModesTwoInv
<1>3. ModesOneInv => ModesOneInv'
  BY <1>1 DEF modes, ModesOneInv, AisNext, LockNext
<1>4. RateTwoInv => RateTwoInv'
  BY <1>1 DEF rates, RateTwoInv, RateTwoTypes, WillClose
<1>5. RateOneInv => RateOneInv'
  BY <1>1 DEF rates, RateOneInv
<1>6. SideTwoInv => SideTwoInv'
  BY <1>1 DEF sidecar, SideTwoInv, SideTwoTypes, HeldApart
<1>7. SideOneInv => SideOneInv'
  BY <1>1 DEF sidecar, SideOneInv, SideOneTypes, Accounted, TapDue
<1>8. NoiseInv => NoiseInv'
  BY <1>1 DEF noise, NoiseInv, NoiseTypes
<1> QED BY <1>1, <1>2, <1>3, <1>4, <1>5, <1>6, <1>7, <1>8, Zenon DEF ControlInv

(* A step of the part that runs, and none of another, keeps the invariant. *)
LEMMA ControlStep ==
    ASSUME ControlInv, AllNext
    PROVE  ControlInv'
<1>1. CASE Next /\ UNCHANGED component
  <2>0. UNCHANGED part
    BY <1>1, Zenon DEF Next
  <2>1. CASE part = "modes two" /\ ModesTwo!Next
    BY <2>0, <2>1, ModesTwoStep, Zenon DEF ControlInv
  <2>2. CASE part = "modes one" /\ ModesOne!Next
    BY <2>0, <2>2, ControlAssumption, ModesOneStep, Zenon DEF ControlInv
  <2>3. CASE part = "rate two" /\ RateTwo!Next
    BY <2>0, <2>3, RateTwoStep, Zenon DEF ControlInv
  <2>4. CASE part = "rate one" /\ RateOne!Next
    BY <2>0, <2>4, ControlAssumption, RateOneStep, Zenon DEF ControlInv
  <2>5. CASE part = "sidecar two" /\ SideTwo!Next
    BY <2>0, <2>5, ControlAssumption, SideTwoStep, Zenon DEF ControlInv
  <2>6. CASE part = "sidecar one" /\ SideOne!Next
    BY <2>0, <2>6, ControlAssumption, SideOneStep, Zenon DEF ControlInv
  <2>7. CASE part = "noise one" /\ NoiseOne!Next
    BY <2>0, <2>7, ControlAssumption, NoiseStep, Zenon DEF ControlInv
  <2> QED BY <1>1, <2>1, <2>2, <2>3, <2>4, <2>5, <2>6, <2>7, Zenon DEF Next
<1>2. CASE Rest
  BY <1>2, ControlStays DEF Rest
<1>3. CASE ~(Next /\ UNCHANGED component) /\ ~Rest
  <2>1. part' = part /\ part \notin Contended
    BY <1>3, Zenon DEF AllNext, Contended
  <2> QED BY <2>1, Zenon DEF ControlInv, Contended
<1> QED BY <1>1, <1>2, <1>3

(* The invariant holds for any number of callers where there are two, and  *)
(* any number of processes.                                                *)
THEOREM Inductive ==
    AllSpec => []ControlInv
<1>1. AllInit => ControlInv
  <2>1. CASE Init
    BY <2>1, ModesBegin, RatesBegin, EnginesBegin, Zenon DEF Init, ControlInv
  <2>2. CASE AllInit /\ ~Init
    <3>1. part \notin Contended
      BY <2>2, Zenon DEF AllInit, Contended
    <3> QED BY <3>1, Zenon DEF ControlInv, Contended
  <2> QED BY <2>1, <2>2
<1>2. ControlInv /\ [AllNext]_AllVars => ControlInv'
  BY ControlStep, ControlStays
<1> QED BY <1>1, <1>2, PTL DEF AllSpec

(* However many callers switch a sidecar at once, the radio never holds an *)
(* engine that was closed (SetDeepCWEnabled, SetFT8TSParams).              *)
THEOREM NeverFeedsClosedHolds ==
    AllSpec => []NeverFeedsClosed
<1>1. ControlInv => NeverFeedsClosed
  BY Zenon DEF ControlInv, SideTwoInv, NeverFeedsClosed, SideTwo!NeverFeedsClosed
<1> QED BY <1>1, Inductive, PTL

(* One caller loses no process, however often it hangs, dies or is         *)
(* restarted, and the chain feeds the engine exactly when it is on         *)
(* (SetDeepCWEnabled, retapCW, SetNREnabled).                              *)
THEOREM EnginesAccountedHolds ==
    AllSpec => []EnginesAccounted
<1>1. SideOneInv => SideOne!NoOrphan /\ SideOne!TapFollows
  BY ControlAssumption
     DEF ControlAssumption, SideOneInv, SideOneTypes, Accounted, TapDue,
         SideOne!NoOrphan, SideOne!TapFollows, SideOne!Settled
<1>2. NoiseInv => NoiseOne!NoOrphan
  BY DEF NoiseInv, NoiseOne!NoOrphan
<1>3. ControlInv => EnginesAccounted
  BY <1>1, <1>2, Zenon DEF ControlInv, EnginesAccounted, NoOrphan, TapFollows
<1> QED BY <1>3, Inductive, PTL

(* However many callers change the capture rate, the chain is dimensioned  *)
(* for what the stream was taken for; and one caller's ADS-B gives back    *)
(* the rate it found (SetCaptureRate, the watchdog, SetADSBRFEnabled).     *)
THEOREM RatesHoldHolds ==
    AllSpec => []RatesHold
<1>1. RateTwoInv => RateTwo!ChainFitsVerdict
  BY DEF RateTwoInv, WillClose, RateTwo!ChainFitsVerdict, RateTwo!Settled
<1>2. RateOneInv => RateOne!AdsbRestoresRate
  BY DEF RateOneInv, RateOne!AdsbRestoresRate, RateOne!Settled
<1>3. ControlInv => RatesHold
  BY <1>1, <1>2, Zenon DEF ControlInv, RatesHold, ChainFitsVerdict, AdsbRestoresRate
<1> QED BY <1>3, Inductive, PTL

(* However many callers switch the decoders, what is reported on is        *)
(* attached unless two switched it at once; and one caller's AIS RF keeps  *)
(* the receiver in NFM (SetMode, SetFT8Enabled, SetAISRFEnabled).          *)
THEOREM DecodersHoldHolds ==
    AllSpec => []DecodersHold
<1>1. ModesTwoInv => ModesTwo!AttachedUnlessRaced
  <2>1. SUFFICES ASSUME ModesTwoInv, ModesTwo!Settled, ~reconnect, NEW f \in Decoders \ raced
                 PROVE  f \in want <=> f \in has
    BY DEF ModesTwo!AttachedUnlessRaced, Decoders
  <2>2. \A t \in Pair : ~Turns(t, f)
    BY <2>1, Zenon DEF ModesTwo!Settled, Turns
  <2> QED BY <2>1, <2>2 DEF ModesTwoInv
<1>2. ModesOneInv => ModesOne!AisLocksNfm
  BY DEF ModesOneInv, LockNext, ModesOne!AisLocksNfm, ModesOne!Settled
<1>3. ControlInv => DecodersHold
  BY <1>1, <1>2, Zenon DEF ControlInv, DecodersHold, AttachedUnlessRaced, AisLocksNfm
<1> QED BY <1>3, Inductive, PTL

-----------------------------------------------------------------------------
(* What surrounds the control: the update, with the proofs of its module,  *)
(* and the GPS receiver.                                                   *)

Fetched == INSTANCE UpdateProofs WITH
    Builds <- LastBuild, Rev <- RevOf, Bundle <- Bundled, Fetcher <- Fetchers, ByUpdate <- Updater,
    Of <- FetchedBy, Present <- OnCard, Attempts <- Tries, MaxDeaths <- Deaths,
    MaxPresses <- Presses, LosesUnsynced <- FALSE,
    server <- v1, exe <- v2, synced <- v3, running <- v4, upd <- v5, inode <- v6, at <- v7,
    tmp <- v8, fetch <- v9, mixed <- v10, deaths <- v11, presses <- v12

(* The two are the same module.                                            *)
LEMMA SameUpdate ==
    /\ Bundles!UpdateAssumption => Fetched!UpdateAssumption
    /\ Bundles!Init => Fetched!Init
    /\ Bundles!Next => Fetched!Next
    /\ UNCHANGED component => UNCHANGED Fetched!vars
    /\ Fetched!AlwaysStarts => Bundles!AlwaysStarts
    /\ Fetched!UsableIsWhole => Bundles!UsableIsWhole
<1>1. Bundles!UpdateAssumption => Fetched!UpdateAssumption
  BY DEF Bundles!UpdateAssumption, Fetched!UpdateAssumption, Bundles!Paths, Fetched!Paths,
     Bundles!Last, Fetched!Last, Bundles!IsFiniteSet, Fetched!IsFiniteSet
<1>2. Bundles!Paths = Fetched!Paths /\ Bundles!Inode = Fetched!Inode
  BY DEF Bundles!Paths, Fetched!Paths, Bundles!Inode, Fetched!Inode, Bundles!Cardinality,
     Fetched!Cardinality
<1>3. Bundles!Init => Fetched!Init
  BY <1>2 DEF Bundles!Init, Fetched!Init, Bundles!Quiet, Fetched!Quiet, Bundles!Idle,
     Fetched!Idle, Bundles!Inode, Fetched!Inode, Bundles!Paths, Fetched!Paths,
     Bundles!Cardinality, Fetched!Cardinality
<1>4. Bundles!Next => Fetched!Next
  <2>1. Bundles!Publish => Fetched!Publish
    BY DEF Bundles!Publish, Fetched!Publish
  <2>2. Bundles!Begin => Fetched!Begin
    BY DEF Bundles!Begin, Fetched!Begin, Bundles!Go, Fetched!Go, Bundles!UpdOnly, Fetched!UpdOnly
  <2>3. Bundles!Meta => Fetched!Meta
    BY DEF Bundles!Meta, Fetched!Meta, Bundles!Quiet, Fetched!Quiet, Bundles!UpdOnly,
       Fetched!UpdOnly
  <2>4. Bundles!Get => Fetched!Get
    BY DEF Bundles!Get, Fetched!Get, Bundles!Quiet, Fetched!Quiet, Bundles!UpdOnly,
       Fetched!UpdOnly
  <2>5. Bundles!Verify => Fetched!Verify
    BY DEF Bundles!Verify, Fetched!Verify, Bundles!Go, Fetched!Go, Bundles!Quiet, Fetched!Quiet,
       Bundles!UpdOnly, Fetched!UpdOnly
  <2>6. Bundles!Swap => Fetched!Swap
    BY DEF Bundles!Swap, Fetched!Swap, Bundles!Go, Fetched!Go, Bundles!Quiet, Fetched!Quiet,
       Bundles!UpdOnly, Fetched!UpdOnly
  <2>7. Bundles!Beside => Fetched!Beside
    BY DEF Bundles!Beside, Fetched!Beside, Bundles!Go, Fetched!Go, Bundles!Idle, Fetched!Idle
  <2>8. Bundles!Sync => Fetched!Sync
    BY DEF Bundles!Sync, Fetched!Sync, Bundles!Go, Fetched!Go, Bundles!UpdOnly, Fetched!UpdOnly
  <2>9. Bundles!Exec => Fetched!Exec
    BY DEF Bundles!Exec, Fetched!Exec, Bundles!Restarted, Fetched!Restarted, Bundles!Quiet,
       Fetched!Quiet, Bundles!Idle, Fetched!Idle
  <2>10. Bundles!Dies => Fetched!Dies
    BY DEF Bundles!Dies, Fetched!Dies, Bundles!Quiet, Fetched!Quiet, Bundles!Idle, Fetched!Idle
  <2>11. Bundles!Boot => Fetched!Boot
    BY DEF Bundles!Boot, Fetched!Boot, Bundles!Restarted, Fetched!Restarted, Bundles!Quiet,
       Fetched!Quiet, Bundles!Idle, Fetched!Idle
  <2>12. \A f \in Fetchers : Bundles!Fetches(f) => Fetched!Fetches(f)
    <3> TAKE f \in Fetchers
    <3>1. Bundles!Press(f) => Fetched!Press(f)
      BY DEF Bundles!Press, Fetched!Press, Bundles!Available, Fetched!Available, Bundles!Last,
         Fetched!Last, Bundles!Set, Fetched!Set, Bundles!Idle, Fetched!Idle, Bundles!Rest,
         Fetched!Rest
    <3>2. Bundles!Download(f) => Fetched!Download(f)
      BY DEF Bundles!Download, Fetched!Download, Bundles!Rest, Fetched!Rest, Bundles!Set,
         Fetched!Set, Bundles!Rivals, Fetched!Rivals, Bundles!Crosses, Fetched!Crosses,
         Bundles!Last, Fetched!Last, Bundles!Failed, Fetched!Failed, Bundles!Over, Fetched!Over,
         Bundles!Idle, Fetched!Idle
    <3>3. Bundles!Open(f) => Fetched!Open(f)
      BY <1>2 DEF Bundles!Open, Fetched!Open, Bundles!Rest, Fetched!Rest, Bundles!Path,
         Fetched!Path, Bundles!Free, Fetched!Free, Bundles!Cut, Fetched!Cut, Bundles!Set,
         Fetched!Set
    <3>4. Bundles!Write(f) => Fetched!Write(f)
      BY DEF Bundles!Write, Fetched!Write, Bundles!Rest, Fetched!Rest, Bundles!Set, Fetched!Set,
         Bundles!Failed, Fetched!Failed, Bundles!Over, Fetched!Over, Bundles!Path, Fetched!Path,
         Bundles!Idle, Fetched!Idle
    <3>5. Bundles!Rename(f) => Fetched!Rename(f)
      BY DEF Bundles!Rename, Fetched!Rename, Bundles!Rest, Fetched!Rest, Bundles!Path,
         Fetched!Path, Bundles!Failed, Fetched!Failed, Bundles!Over, Fetched!Over, Bundles!Set,
         Fetched!Set, Bundles!Idle, Fetched!Idle
    <3>6. QED  BY <3>1, <3>2, <3>3, <3>4, <3>5 DEF Bundles!Fetches, Fetched!Fetches
  <2>13. QED  BY <2>1, <2>2, <2>3, <2>4, <2>5, <2>6, <2>7, <2>8, <2>9, <2>10, <2>11, <2>12 DEF
     Bundles!Next, Fetched!Next
<1>5. UNCHANGED component => UNCHANGED Fetched!vars
  BY DEF component, spare6, spare7, spare8, spare10, Fetched!vars
<1>6. Fetched!AlwaysStarts => Bundles!AlwaysStarts
  BY DEF Bundles!AlwaysStarts, Fetched!AlwaysStarts
<1>7. Fetched!UsableIsWhole => Bundles!UsableIsWhole
  BY DEF Bundles!UsableIsWhole, Fetched!UsableIsWhole, Bundles!Available, Fetched!Available,
     Bundles!Last, Fetched!Last
<1>8. QED  BY <1>1, <1>3, <1>4, <1>5, <1>6, <1>7

(* Whatever is interrupted, the program on the disk starts, and what       *)
(* counts as installed is whole (runUpdate, fetchSidecar, fetchTarBundle). *)
THEOREM UpdateSoundHolds ==
    AllSpec => []UpdateSound
<1> DEFINE Inv == part = "bundles" => Fetched!UpdateInv
<1>0. Fetched!UpdateAssumption
  BY PanelAssumption, SameUpdate
<1>1. AllInit => Inv
  <2>1. AllInit /\ part = "bundles" => Bundles!Init
    BY DEF AllInit, Init
  <2>2. QED  BY <1>0, <2>1, SameUpdate, Fetched!UpdateInitial
<1>2. Inv /\ [AllNext]_AllVars => Inv'
  <2>1. [AllNext]_AllVars => UNCHANGED part
    BY Zenon DEF AllNext, AllVars, Next, Rest
  <2>2. [AllNext]_AllVars /\ part = "bundles" => Bundles!Next \/ UNCHANGED component
    BY DEF AllNext, AllVars, Next, Rest
  <2>3. Fetched!UpdateInv /\ [Fetched!Next]_Fetched!vars => Fetched!UpdateInv'
    BY <1>0, Fetched!UpdateStep
  <2>4. QED  BY <2>1, <2>2, <2>3, SameUpdate
<1>3. Inv => UpdateSound
  BY <1>0, SameUpdate, Fetched!UpdatePromises DEF UpdateSound
<1>4. QED  BY <1>1, <1>2, <1>3, PTL DEF AllSpec

(* The clock is set right: what the fix says of the time is the time of    *)
(* its last sentence, if that told time and date.                          *)

GpsInv ==
    LET now == v1  source == v4  fix == v7  rmcAt == v8
    IN  /\ now \in Nat /\ rmcAt \in Int /\ rmcAt >= -1
        /\ fix \in [tod : Int, date : Int, valid : BOOLEAN, updated : Int, posAt : Int]
        /\ rmcAt <= fix.updated /\ fix.updated <= now
        /\ fix.valid => source # "none" /\ fix.updated >= 0
        /\ rmcAt >= 0 /\ fix.updated = rmcAt =>
             fix.tod = rmcAt % DaySeconds /\ fix.date = rmcAt \div DaySeconds

LEMMA DayAndSecond ==
    ASSUME NEW d \in Nat, d > 0, NEW t \in Nat
    PROVE  /\ t \div d \in Int /\ t % d \in Int
           /\ (t \div d) * d + (t % d) = t
<1>1. t \div d \in Int
  OBVIOUS
<1>2. t % d \in Int
  OBVIOUS
<1>3. (t \div d) * d + (t % d) = t
  OBVIOUS
<1>4. QED  BY <1>1, <1>2, <1>3

LEMMA GpsInitial == ASSUME Receiver!GpsAssumption, Receiver!Init PROVE GpsInv
BY DEF Receiver!GpsAssumption, Receiver!Init, GpsInv

LEMMA GpsStep ==
    ASSUME Receiver!GpsAssumption, GpsInv, [Receiver!Next]_Receiver!vars
    PROVE  GpsInv'
<1> DEFINE now == v1
           source == v4
           fix == v7
           rmcAt == v8
<1>1. DaySeconds \in Nat /\ DaySeconds > 0
  BY DEF Receiver!GpsAssumption
<1> DEFINE Fix == [tod : Int, date : Int, valid : BOOLEAN, updated : Int, posAt : Int]
<1>2. now \in Nat /\ fix \in Fix
  BY DEF GpsInv
<1>3. CASE Receiver!Lost
  <2>1. /\ fix' \in Fix /\ ~fix'.valid /\ fix'.updated = fix.updated
        /\ fix'.tod = fix.tod /\ fix'.date = fix.date
    BY <1>2, <1>3 DEF Receiver!Lost
  <2>2. UNCHANGED <<now, rmcAt>>
    BY <1>3 DEF Receiver!Lost
  <2>3. QED  BY <2>1, <2>2 DEF GpsInv
<1>4. ASSUME NEW s, Receiver!Hears(s), UNCHANGED rmcAt,
           fix' = fix \/ fix' = [fix EXCEPT !.valid = FALSE]
    PROVE  GpsInv'
  <2>1. UNCHANGED <<now, source>>
    BY <1>4 DEF Receiver!Hears
  <2>2. /\ fix' \in Fix /\ (fix'.valid => fix.valid) /\ fix'.updated = fix.updated
        /\ fix'.tod = fix.tod /\ fix'.date = fix.date
    BY <1>2, <1>4
  <2>3. QED  BY <1>4, <2>1, <2>2 DEF GpsInv
<1>5. ASSUME NEW tod \in {fix.tod, now % DaySeconds}, NEW date \in {fix.date, now \div DaySeconds},
           NEW posAt \in Int, UNCHANGED <<now, source>>, source # "none",
           fix' = [fix EXCEPT !.tod = tod, !.date = date,
                              !.valid = TRUE, !.updated = now, !.posAt = posAt],
           \/ rmcAt' = rmcAt
           \/ rmcAt' = now /\ tod = now % DaySeconds /\ date = now \div DaySeconds
    PROVE  GpsInv'
  <2>1. tod \in Int /\ date \in Int
    BY <1>1, <1>2, DayAndSecond
  <2>2. rmcAt' = now => tod = now % DaySeconds /\ date = now \div DaySeconds
    BY <1>2, <1>5 DEF GpsInv
  <2>3. /\ fix'.updated = now /\ fix'.valid = TRUE
        /\ fix'.tod = tod /\ fix'.date = date
    BY <1>2, <1>5
  <2>4. fix' \in Fix
    <3>1. \A u, v, w, x \in Int :
            [tod |-> u, date |-> v, valid |-> TRUE, updated |-> w, posAt |-> x] \in Fix
      OBVIOUS
    <3>2. now \in Int
      BY <1>2
    <3>3. QED  BY <1>2, <1>5, <2>1, <3>1, <3>2
  <2>5. rmcAt' \in Int /\ rmcAt' >= -1 /\ rmcAt' <= now
    BY <1>2, <1>5 DEF GpsInv
  <2>6. QED  BY <1>2, <1>5, <2>2, <2>3, <2>4, <2>5 DEF GpsInv
<1>6. CASE Receiver!FeedGGA
  <2>1. CASE fix' = [fix EXCEPT !.valid = FALSE]
    BY <1>4, <1>6, <2>1 DEF Receiver!FeedGGA
  <2>2. CASE fix' = [fix EXCEPT !.tod = now % DaySeconds, !.valid = TRUE, !.updated = now, !.posAt = now]
    <3>1. UNCHANGED <<now, source, rmcAt>> /\ source # "none"
      BY <1>6 DEF Receiver!FeedGGA, Receiver!Hears
    <3> DEFINE tod == now % DaySeconds
    <3>2. tod \in {fix.tod, now % DaySeconds} /\ now \in Int
      BY <1>2
    <3>3. fix' = [fix EXCEPT !.tod = tod, !.date = fix.date,
                             !.valid = TRUE, !.updated = now, !.posAt = now]
      BY <1>2, <2>2
    <3> HIDE DEF tod
    <3>4. QED  BY <1>5, <3>1, <3>2, <3>3
  <2>3. QED  BY <1>6, <2>1, <2>2 DEF Receiver!FeedGGA
<1>7. CASE Receiver!FeedRMC
  <2>1. CASE fix' = [fix EXCEPT !.valid = FALSE] /\ UNCHANGED rmcAt
    BY <1>4, <1>7, <2>1 DEF Receiver!FeedRMC
  <2>2. ASSUME NEW timed \in BOOLEAN, NEW dated \in BOOLEAN,
               fix' = [fix EXCEPT !.tod = IF timed THEN now % DaySeconds ELSE @,
                                  !.date = IF dated THEN now \div DaySeconds ELSE @,
                                  !.valid = TRUE, !.updated = now],
               rmcAt' = IF timed /\ dated THEN now ELSE rmcAt
        PROVE  GpsInv'
    <3>1. UNCHANGED <<now, source>> /\ source # "none"
      BY <1>7 DEF Receiver!FeedRMC, Receiver!Hears
    <3> DEFINE tod == IF timed THEN now % DaySeconds ELSE fix.tod
               date == IF dated THEN now \div DaySeconds ELSE fix.date
    <3>2. /\ tod \in {fix.tod, now % DaySeconds} /\ date \in {fix.date, now \div DaySeconds}
          /\ fix.posAt \in Int
      BY <1>2
    <3>3. fix' = [fix EXCEPT !.tod = tod, !.date = date,
                             !.valid = TRUE, !.updated = now, !.posAt = fix.posAt]
      BY <1>2, <2>2
    <3>4. \/ rmcAt' = rmcAt
          \/ rmcAt' = now /\ tod = now % DaySeconds /\ date = now \div DaySeconds
      BY <2>2
    <3> HIDE DEF tod, date
    <3>5. QED  BY <1>5, <3>1, <3>2, <3>3, <3>4
  <2>3. QED  BY <1>7, <2>1, <2>2 DEF Receiver!FeedRMC
<1>8. CASE Receiver!Garbled
  BY <1>4, <1>8 DEF Receiver!Garbled
<1>9. CASE Receiver!Tick
  BY <1>9 DEF Receiver!Tick, GpsInv
<1>10. CASE Receiver!Plug \/ Receiver!Looks \/ UNCHANGED Receiver!vars
  BY <1>10 DEF Receiver!Plug, Receiver!Looks, Receiver!vars, GpsInv
<1>11. CASE Receiver!Scan
  <2>1. source = "none" /\ UNCHANGED <<now, fix, rmcAt>>
    BY <1>11 DEF Receiver!Scan
  <2>2. QED  BY <2>1 DEF GpsInv
<1>12. QED
  BY <1>3, <1>6, <1>7, <1>8, <1>9, <1>10, <1>11 DEF Receiver!Next, Receiver!Ends, Receiver!Silence

LEMMA GpsPromises ==
    ASSUME Receiver!GpsAssumption, GpsInv, [Receiver!Next]_Receiver!vars
    PROVE  Receiver!SetsClockRight
<1> DEFINE now == v1
           source == v4
           fix == v7
           rmcAt == v8
           off == v9
           looked == v10
           set == v11
<1>1. SUFFICES ASSUME set', looked' # looked PROVE Receiver!SetsClockRight
  BY DEF Receiver!SetsClockRight
<1>2. Receiver!Looks
  BY <1>1 DEF Receiver!Next, Receiver!vars, Receiver!Tick, Receiver!Plug,
           Receiver!Scan, Receiver!Ends, Receiver!Silence, Receiver!Lost, Receiver!FeedGGA,
           Receiver!FeedRMC, Receiver!Garbled, Receiver!Hears
<1>3. fix.valid /\ off' = Receiver!Told - now
  BY <1>1, <1>2 DEF Receiver!Looks
<1>4. ASSUME fix.updated = rmcAt PROVE Receiver!Told = fix.updated
  <2>1. fix.updated \in Nat /\ DaySeconds \in Nat /\ DaySeconds > 0
    BY <1>3 DEF GpsInv, Receiver!GpsAssumption
  <2>2. fix.tod = fix.updated % DaySeconds /\ fix.date = fix.updated \div DaySeconds
    BY <1>4, <2>1 DEF GpsInv
  <2>3. (fix.updated \div DaySeconds) * DaySeconds + (fix.updated % DaySeconds) = fix.updated
    BY <2>1, DayAndSecond
  <2>4. QED  BY <2>2, <2>3 DEF Receiver!Told
<1>5. fix.updated \in Int /\ now \in Nat /\ fix.updated <= now /\ Passed \in Nat
  BY DEF GpsInv, Receiver!GpsAssumption
<1>6. source # "none"
  BY <1>3 DEF GpsInv
<1>7. QED  BY <1>3, <1>4, <1>5, <1>6 DEF Receiver!SetsClockRight

(* The clock is never set but from a device that is read, and right (Gps). *)
THEOREM ClockSetRightHolds ==
    AllSpec => ClockSetRight
<1> DEFINE Inv == part = "gps" => GpsInv
<1>0. Receiver!GpsAssumption
  BY PanelAssumption
<1>1. AllInit => Inv
  <2>1. AllInit /\ part = "gps" => Receiver!Init
    BY DEF AllInit, Init
  <2>2. QED  BY <1>0, <2>1, GpsInitial
<1>2. [AllNext]_AllVars => UNCHANGED part /\ (part = "gps" => [Receiver!Next]_Receiver!vars)
  <2>1. [AllNext]_AllVars => UNCHANGED part
    BY Zenon DEF AllNext, AllVars, Next, Rest
  <2>2. [AllNext]_AllVars /\ part = "gps" => Receiver!Next \/ UNCHANGED component
    BY DEF AllNext, AllVars, Next, Rest
  <2>3. UNCHANGED component => UNCHANGED Receiver!vars
    BY DEF component, spare6, spare7, spare8, spare10, Receiver!vars
  <2>4. QED  BY <2>1, <2>2, <2>3
<1>3. Inv /\ [AllNext]_AllVars => Inv'
  BY <1>0, <1>2, GpsStep
<1>4. Inv /\ [AllNext]_AllVars => (part = "gps" => Receiver!SetsClockRight)
  BY <1>0, <1>2, GpsPromises
<1>5. QED  BY <1>1, <1>3, <1>4, PTL DEF AllSpec, ClockSetRight
=============================================================================
