----------------------------- MODULE ModesProofs -----------------------------
(***************************************************************************)
(* The decoders of the receiver under any number of callers, and under one *)
(* (RadioModes, as MCPanel has it): what an unfinished call still owes,    *)
(* kept by every step.                                                     *)
(***************************************************************************)
EXTENDS MCPanel, SequenceTheorems, TLAPS

(* What comes first in a short sequence, and what is left of it.           *)
LEMMA Tails ==
    /\ \A a : Head(<<a>>) = a /\ Tail(<<a>>) = <<>>
    /\ \A a, b : Head(<<a, b>>) = a /\ Tail(<<a, b>>) = <<b>>
    /\ \A a, b, c : Head(<<a, b, c>>) = a /\ Tail(<<a, b, c>>) = <<b, c>>
    /\ \A a, b, c, d : Head(<<a, b, c, d>>) = a /\ Tail(<<a, b, c, d>>) = <<b, c, d>>
  <1>1. ASSUME NEW a PROVE Tail(<<a>>) = <<>> OBVIOUS
  <1>2. ASSUME NEW a, NEW b PROVE Tail(<<a, b>>) = <<b>> OBVIOUS
  <1>3. ASSUME NEW a, NEW b, NEW c PROVE Tail(<<a, b, c>>) = <<b, c>> OBVIOUS
  <1>4. ASSUME NEW a, NEW b, NEW c, NEW d PROVE Tail(<<a, b, c, d>>) = <<b, c, d>> OBVIOUS
  <1> QED BY <1>1, <1>2, <1>3, <1>4

(* A plan begins with one of the steps, and its step tells what follows    *)
(* Nothing before or after a short sequence leaves it as it is.            *)
LEMMA Alone ==
    /\ <<>> \o <<>> = <<>>
    /\ \A a : <<>> \o <<a>> = <<a>> /\ <<a>> \o <<>> = <<a>>
    /\ \A a, b : <<>> \o <<a, b>> = <<a, b>> /\ <<a, b>> \o <<>> = <<a, b>>
    /\ \A a, b, c : <<>> \o <<a, b, c>> = <<a, b, c>> /\ <<a, b, c>> \o <<>> = <<a, b, c>>
  <1>1. <<>> \o <<>> = <<>> OBVIOUS
  <1>2. ASSUME NEW a PROVE <<>> \o <<a>> = <<a>> OBVIOUS
  <1>3. ASSUME NEW a PROVE <<a>> \o <<>> = <<a>> OBVIOUS
  <1>4. ASSUME NEW a, NEW b PROVE <<>> \o <<a, b>> = <<a, b>> OBVIOUS
  <1>5. ASSUME NEW a, NEW b PROVE <<a, b>> \o <<>> = <<a, b>> OBVIOUS
  <1>6. ASSUME NEW a, NEW b, NEW c PROVE <<>> \o <<a, b, c>> = <<a, b, c>> OBVIOUS
  <1>7. ASSUME NEW a, NEW b, NEW c PROVE <<a, b, c>> \o <<>> = <<a, b, c>> OBVIOUS
  <1> QED BY <1>1, <1>2, <1>3, <1>4, <1>5, <1>6, <1>7

-----------------------------------------------------------------------------
(* The decoders of the receiver: what a call may have left (RadioModes).   *)

(* Two steps in a row (RadioModes, Then).                                  *)
LEMMA OneAndOne ==
    \A a, b : <<a>> \o <<b>> = <<a, b>>
<1> SUFFICES ASSUME NEW a, NEW b PROVE <<a>> \o <<b>> = <<a, b>>
  BY Zenon
<1> DEFINE S == {a, b}
<1>1. <<a>> \in Seq(S) /\ <<b>> \in Seq(S) /\ <<a, b>> \in Seq(S)
  OBVIOUS
<1>2. <<a>> \o <<b>> \in Seq(S)
  BY <1>1
<1>3. Len(<<a>> \o <<b>>) = Len(<<a, b>>)
  BY <1>1
<1>4. \A i \in 1..Len(<<a>> \o <<b>>) : (<<a>> \o <<b>>)[i] = <<a, b>>[i]
  BY <1>1
<1> HIDE DEF S
<1> QED BY <1>1, <1>2, <1>3, <1>4, SeqEqual

Do(d, a) == ModesTwo!Task(d, a)

TwoTasks ==
    {Do("mode", m) : m \in {"USB", "NFM", "AM"}}
      \cup {Do("rate", "new"), Do("rebuild", "now"), Do("bandwidth", "some")}
      \cup {Do(f, a) : f \in {"ft8", "aprs"}, a \in {"on", "off"}}
      \cup {Do(d, f) : d \in {"attach", "detach"}, f \in {"ft8", "aprs"}}

TwoPlans ==
    {<<>>} \cup {<<c>> : c \in TwoTasks} \cup {<<Do("attach", "ft8"), Do("mode", "USB")>>}

\* The call is about to attach or to detach f.
Turns(t, f) ==
    todo[t] # <<>> /\ Head(todo[t]).do \in {"attach", "detach"} /\ Head(todo[t]).arg = f

(* A task is what it was made of (RadioModes, Task).                       *)
LEMMA DoIs ==
    \A d, a : Do(d, a).do = d /\ Do(d, a).arg = a /\ Do(d, a) = ModesTwo!Task(d, a)
              /\ Do(d, a) = ModesOne!Task(d, a)
  BY DEF Do, ModesTwo!Task, ModesOne!Task

(* An attachment may be followed by a change of the mode, every other step *)
(* by none (SetFT8Enabled, SetAPRSEnabled).                                *)
LEMMA TwoSteps ==
    ASSUME NEW s \in TwoPlans, s # <<>>
    PROVE  /\ Head(s) \in TwoTasks
           /\ Head(s).do \notin {"attach", "detach"} => Tail(s) = <<>>
           /\ Tail(s) \in {<<>>, <<Do("mode", "USB")>>}
  <1>1. ASSUME NEW c \in TwoTasks, s = <<c>>
        PROVE  Head(s) = c /\ Tail(s) = <<>>
    BY <1>1, Tails
  <1>2. CASE s = <<Do("attach", "ft8"), Do("mode", "USB")>>
    <2>1. Head(s) = Do("attach", "ft8") /\ Tail(s) = <<Do("mode", "USB")>>
      BY <1>2, Tails
    <2>2. Do("attach", "ft8") \in TwoTasks
      BY DEF TwoTasks
    <2> QED BY <2>1, <2>2, DoIs
  <1> QED BY <1>1, <1>2 DEF TwoPlans

\* A step puts s in place of the one that the call did.
TodoLeft(t, s) == todo' = [todo EXCEPT ![t] = s \o Tail(@)]

(* Nothing after a plan leaves it as it is (RadioModes, Then).             *)
LEMMA TwoAlone ==
    \A s \in TwoPlans : s \o <<>> = s /\ <<>> \o s = s
  BY Alone DEF TwoPlans

Decoders == {"ft8", "aprs"}

\* For the decoders that two calls never turned at once: a call that is about
\* to turn one on its own chain turns it the way the flag says, and where no
\* call is, the chain has what the flag says, but between the rate's rebuild
\* of the chain and the session that follows it.
ModesTwoInv ==
    /\ todo \in [Pair -> TwoPlans] /\ stale \subseteq Pair
    /\ mode \in {"USB", "NFM", "AM"} /\ watch \in {"USB", "NFM", "AM", "idle"}
    /\ \A f \in Decoders \ raced, t \in Pair :
         Turns(t, f) /\ t \notin stale => (Head(todo[t]).do = "attach" <=> f \in want)
    /\ \A f \in Decoders \ raced :
         ~reconnect /\ (\A t \in Pair : Turns(t, f) => t \in stale) => (f \in want <=> f \in has)
    /\ \A f \in Decoders, t, u \in Pair : t # u /\ Turns(t, f) /\ Turns(u, f) => f \in raced

(* The chain that a change of the mode builds has the decoders that are on *)
(* (SetMode, SetBandwidth, session's setup).                               *)
LEMMA ChainsTwo ==
    \A f \in Decoders :
      /\ f \in ModesTwo!ModeChain <=> f \in want
      /\ f \in ModesTwo!BandwidthChain <=> f \in want
      /\ f \in ModesTwo!SessionChain <=> f \in want
  BY DEF Decoders, ModesTwo!ModeChain, ModesTwo!BandwidthChain, ModesTwo!SessionChain,
         ModesTwo!ApplyAudioFx, ModesTwo!Fx

(* A step that turns nothing: what a call puts is not about a decoder, and *)
(* the chain is kept, or made anew with the decoders that are on.          *)
LEMMA TurnsNothing ==
    ASSUME ModesTwoInv, NEW t \in Pair, todo' \in [Pair -> TwoPlans],
           \A u \in Pair \ {t} : todo'[u] = todo[u],
           todo'[t] = <<>> \/ Head(todo'[t]).do \notin {"attach", "detach"},
           todo[t] = <<>> \/ Head(todo[t]).do \notin {"attach", "detach"},
           mode' \in {"USB", "NFM", "AM"}, watch' = watch,
           UNCHANGED <<want, raced>>, reconnect' = reconnect,
           UNCHANGED <<has, stale>> \/ (stale' = Pair /\ \A f \in Decoders : f \in has' <=> f \in want)
    PROVE  ModesTwoInv'
<1>1. \A f \in Decoders : ~Turns(t, f) /\ ~Turns(t, f)'
  BY DEF Turns
<1>2. \A f \in Decoders, u \in Pair : Turns(u, f)' <=> Turns(u, f)
  BY <1>1 DEF Turns
<1>3. \A f \in Decoders, u \in Pair : Turns(u, f) => todo'[u] = todo[u]
  BY <1>1
<1>4. CASE UNCHANGED <<has, stale>>
  BY <1>2, <1>3, <1>4 DEF ModesTwoInv
<1>5. CASE stale' = Pair /\ \A f \in Decoders : f \in has' <=> f \in want
  BY <1>2, <1>5 DEF ModesTwoInv
<1> QED BY <1>4, <1>5

(* A step of the two callers, the session or its watchdog keeps what is    *)
(* reported on attached, or owed by one call (RadioModes).                 *)
LEMMA ModesTwoStep ==
    ASSUME ModesTwoInv, ModesTwo!Next
    PROVE  ModesTwoInv'
<1>0. /\ todo \in [Pair -> TwoPlans] /\ mode \in {"USB", "NFM", "AM"} /\ stale \subseteq Pair
      /\ watch \in {"USB", "NFM", "AM", "idle"}
  BY DEF ModesTwoInv
<1>a. \A t \in Pair : todo[t] # <<>> =>
        /\ Head(todo[t]) \in TwoTasks
        /\ Head(todo[t]).do \notin {"attach", "detach"} => Tail(todo[t]) = <<>>
        /\ Tail(todo[t]) \in {<<>>, <<Do("mode", "USB")>>}
  BY <1>0, TwoSteps
<1>1. ASSUME NEW t \in Pair, ModesTwo!Enter(t) PROVE ModesTwoInv'
  <2>1. \A c \in ModesTwo!Call : c \in TwoTasks /\ c.do \notin {"attach", "detach"} /\ c # ModesTwo!Task("ais", "on")
    <3>1. ASSUME NEW c \in [do : Decoders, arg : {"on", "off"}]
          PROVE  c \in TwoTasks /\ c.do \in Decoders
      <4>1. c = Do(c.do, c.arg) /\ c.do \in Decoders /\ c.arg \in {"on", "off"}
        BY DEF Do, ModesTwo!Task
      <4> QED BY <4>1 DEF TwoTasks, Decoders
    <3>2. ASSUME NEW c \in [do : Decoders, arg : {"on", "off"}]
          PROVE  c \in TwoTasks /\ c.do \notin {"attach", "detach"} /\ c # ModesTwo!Task("ais", "on")
      BY <3>1 DEF Decoders, ModesTwo!Task
    <3>3. ModesTwo!Call = {Do("mode", m) : m \in {"USB", "NFM", "AM"}}
             \cup {Do("rate", "new"), Do("bandwidth", "some")} \cup [do : Decoders, arg : {"on", "off"}]
      BY DEF ModesTwo!Call, ModesTwo!Mode, Do, Decoders
    <3> QED BY <3>2, <3>3, DoIs DEF TwoTasks
  <2>2. \A c \in ModesTwo!Call : <<c>> \in TwoPlans /\ Head(<<c>>) = c
    BY <2>1 DEF TwoPlans
  <2>3. todo' \in [Pair -> TwoPlans] /\ (\A u \in Pair \ {t} : todo'[u] = todo[u])
        /\ Head(todo'[t]).do \notin {"attach", "detach"}
    BY <1>0, <1>1, <2>1, <2>2 DEF ModesTwo!Enter
  <2>4. todo[t] = <<>> /\ UNCHANGED <<mode, want, raced, reconnect, has, stale, watch>>
    BY <1>1 DEF ModesTwo!Enter
  <2> QED BY <1>0, <2>3, <2>4, TurnsNothing
<1>2. ASSUME NEW t \in Pair, ModesTwo!SetMode(t) PROVE ModesTwoInv'
  <2>1. todo[t] # <<>> /\ Head(todo[t]).do = "mode" /\ TodoLeft(t, <<>>)
    BY <1>2 DEF ModesTwo!SetMode, ModesTwo!At, ModesTwo!Then, TodoLeft
  <2>2. Tail(todo[t]) = <<>> /\ Head(todo[t]).arg \in {"USB", "NFM", "AM"}
    BY <1>a, <2>1, DoIs DEF TwoTasks
  <2>3. todo' \in [Pair -> TwoPlans] /\ (\A u \in Pair \ {t} : todo'[u] = todo[u]) /\ todo'[t] = <<>>
    BY <1>0, <2>1, <2>2, TwoAlone DEF TodoLeft, TwoPlans
  <2>4. /\ UNCHANGED <<want, raced, reconnect, watch>> /\ mode' \in {mode, Head(todo[t]).arg}
        /\ UNCHANGED <<has, stale>> \/ (stale' = Pair /\ has' = ModesTwo!ModeChain)
    BY <1>2 DEF ModesTwo!SetMode, ModesTwo!SetModeTo, ModesTwo!Rebuild, ModesTwo!Arg
  <2> QED BY <1>0, <2>1, <2>2, <2>3, <2>4, ChainsTwo, TurnsNothing
<1>3. ASSUME NEW t \in Pair, ModesTwo!SetBandwidth(t) PROVE ModesTwoInv'
  <2>1. todo[t] # <<>> /\ Head(todo[t]).do = "bandwidth" /\ TodoLeft(t, <<>>)
    BY <1>3 DEF ModesTwo!SetBandwidth, ModesTwo!At, ModesTwo!Then, TodoLeft
  <2>2. Tail(todo[t]) = <<>>
    BY <1>a, <2>1
  <2>3. todo' \in [Pair -> TwoPlans] /\ (\A u \in Pair \ {t} : todo'[u] = todo[u]) /\ todo'[t] = <<>>
    BY <1>0, <2>1, <2>2, TwoAlone DEF TodoLeft, TwoPlans
  <2>4. /\ UNCHANGED <<want, raced, reconnect, mode, watch>>
        /\ UNCHANGED <<has, stale>> \/ (stale' = Pair /\ has' = ModesTwo!BandwidthChain)
    BY <1>3 DEF ModesTwo!SetBandwidth, ModesTwo!Rebuild
  <2> QED BY <1>0, <2>1, <2>3, <2>4, ChainsTwo, TurnsNothing
<1>4. ASSUME NEW t \in Pair, ModesTwo!SetCaptureRate(t) PROVE ModesTwoInv'
  <2>1. /\ todo[t] # <<>> /\ Head(todo[t]).do = "rate"
        /\ TodoLeft(t, <<>>) \/ TodoLeft(t, <<Do("rebuild", "now")>>)
    BY <1>4 DEF ModesTwo!SetCaptureRate, ModesTwo!At, ModesTwo!Then, TodoLeft, Do
  <2>2. Tail(todo[t]) = <<>>
    BY <1>a, <2>1
  <2>3. /\ <<Do("rebuild", "now")>> \in TwoPlans /\ <<>> \in TwoPlans
        /\ Head(<<Do("rebuild", "now")>>).do = "rebuild"
    BY DoIs DEF TwoPlans, TwoTasks
  <2>4. /\ todo' \in [Pair -> TwoPlans] /\ (\A u \in Pair \ {t} : todo'[u] = todo[u])
        /\ todo'[t] \in {<<>>, <<Do("rebuild", "now")>>}
    BY <1>0, <2>1, <2>2, <2>3, TwoAlone DEF TodoLeft
  <2>5. UNCHANGED <<want, raced, reconnect, mode, has, stale, watch>>
    BY <1>4 DEF ModesTwo!SetCaptureRate
  <2> QED BY <1>0, <2>1, <2>3, <2>4, <2>5, TurnsNothing
<1>5. ASSUME NEW t \in Pair, ModesTwo!CaptureRebuild(t) PROVE ModesTwoInv'
  <2>1. todo[t] # <<>> /\ Head(todo[t]).do = "rebuild" /\ TodoLeft(t, <<>>)
    BY <1>5 DEF ModesTwo!CaptureRebuild, ModesTwo!At, ModesTwo!Then, TodoLeft
  <2>2. Tail(todo[t]) = <<>>
    BY <1>a, <2>1
  <2>3. todo' \in [Pair -> TwoPlans] /\ (\A u \in Pair \ {t} : todo'[u] = todo[u]) /\ todo'[t] = <<>>
    BY <1>0, <2>1, <2>2, TwoAlone DEF TodoLeft, TwoPlans
  <2>4. UNCHANGED <<want, raced, mode, watch>> /\ stale' = Pair /\ reconnect' = TRUE
    BY <1>5 DEF ModesTwo!CaptureRebuild, ModesTwo!Rebuild
  <2>5. \A f \in Decoders, u \in Pair : Turns(u, f)' => Turns(u, f)
    BY <2>3 DEF Turns
  <2> QED BY <2>3, <2>4, <2>5 DEF ModesTwoInv
<1>6. ASSUME NEW t \in Pair, NEW f \in Decoders, NEW home,
             (home = {"USB"} /\ f = "ft8") \/ home = {"USB", "NFM", "AM"},
             ModesTwo!SetDecoder(t, f, home)
      PROVE  ModesTwoInv'
  <2> DEFINE step == Do(IF Head(todo[t]).arg = "on" THEN "attach" ELSE "detach", f)
             rest == IF Head(todo[t]).arg = "on" /\ mode \notin home
                       THEN <<Do("mode", CHOOSE m \in home : TRUE)>> ELSE <<>>
  <2>1. todo[t] # <<>> /\ Head(todo[t]).do = f /\ Tail(todo[t]) = <<>>
        /\ Head(todo[t]).arg \in {"on", "off"}
    <3>1. todo[t] # <<>> /\ Head(todo[t]).do = f
      BY <1>6 DEF ModesTwo!SetDecoder, ModesTwo!At
    <3>2. f \notin {"attach", "detach"}
      BY DEF Decoders
    <3> QED BY <1>a, <3>1, <3>2, DoIs DEF TwoTasks, Decoders
  <2>2. TodoLeft(t, <<step>> \o rest)
    BY <1>6 DEF ModesTwo!SetDecoder, ModesTwo!Then, ModesTwo!On, ModesTwo!Arg, TodoLeft, Do
  <2>3. rest \in {<<>>, <<Do("mode", "USB")>>} /\ (rest # <<>> => step = Do("attach", "ft8"))
    <3>1. CASE home = {"USB", "NFM", "AM"}
      <4>1. mode \in home
        BY <1>0, <3>1
      <4> QED BY <4>1
    <3>2. CASE home = {"USB"} /\ f = "ft8"
      <4>1. (CHOOSE m \in {"USB"} : TRUE) = "USB"
        OBVIOUS
      <4> QED BY <3>2, <4>1
    <3> QED BY <1>6, <3>1, <3>2
  <2>4. step \in TwoTasks /\ step.do \in {"attach", "detach"} /\ step.arg = f
        /\ (step.do = "attach" <=> Head(todo[t]).arg = "on")
    <3>1. CASE Head(todo[t]).arg = "on"
      BY <3>1, DoIs DEF TwoTasks, Decoders
    <3>2. CASE Head(todo[t]).arg # "on"
      BY <3>2, DoIs DEF TwoTasks, Decoders
    <3> QED BY <3>1, <3>2
  <2>5. /\ want' = IF Head(todo[t]).arg = "on" THEN want \cup {f} ELSE want \ {f}
        /\ stale' = stale \ {t} /\ UNCHANGED <<mode, has, reconnect, watch>>
        /\ raced' = IF f \in ModesTwo!Switching(t) THEN raced \cup {f} ELSE raced
    BY <1>6 DEF ModesTwo!SetDecoder, ModesTwo!On, ModesTwo!Arg
  <2> HIDE DEF step, rest
  <2>6. <<step>> \o rest \in TwoPlans /\ Head(<<step>> \o rest) = step /\ <<step>> \o rest # <<>>
    <3>1. CASE rest = <<>>
      BY <2>4, <3>1, Alone DEF TwoPlans
    <3>2. CASE rest = <<Do("mode", "USB")>>
      <4>1. <<step>> \o rest = <<step, Do("mode", "USB")>>
        BY <3>2, OneAndOne
      <4>2. rest # <<>>
        BY <3>2
      <4> QED BY <2>3, <4>1, <4>2, Tails DEF TwoPlans
    <3> QED BY <2>3, <3>1, <3>2
  <2>7. /\ todo' \in [Pair -> TwoPlans] /\ (\A u \in Pair \ {t} : todo'[u] = todo[u])
        /\ todo'[t] # <<>> /\ Head(todo'[t]) = step
    BY <1>0, <2>1, <2>2, <2>6, TwoAlone DEF TodoLeft
  <2>8. \A u \in Pair \ {t} : Turns(u, f) => f \in ModesTwo!Switching(t)
    <3> SUFFICES ASSUME NEW u \in Pair \ {t}, Turns(u, f) PROVE f \in ModesTwo!Switching(t)
      OBVIOUS
    <3>1. Head(todo[u]) \in {ModesTwo!Task("attach", f), ModesTwo!Task("detach", f)}
      BY <1>a, DoIs DEF Turns, TwoTasks, Decoders
    <3>2. 1 \in DOMAIN todo[u] /\ todo[u][1] = Head(todo[u])
      <4>1. todo[u] # <<>> /\ todo[u] \in TwoPlans
        BY <1>0 DEF Turns
      <4> QED BY <4>1 DEF TwoPlans
    <3> QED BY <3>1, <3>2 DEF ModesTwo!Switching, Decoders
  <2>9. /\ \A g \in Decoders, u \in Pair \ {t} : Turns(u, g)' <=> Turns(u, g)
        /\ \A g \in Decoders : ~Turns(t, g) /\ (Turns(t, g)' <=> g = f)
    BY <2>1, <2>4, <2>7 DEF Turns, Decoders
  <2>10. \A g \in Decoders \ raced', u \in Pair :
           Turns(u, g)' /\ u \notin stale' => (Head(todo'[u]).do = "attach" <=> g \in want')
    BY <2>4, <2>5, <2>7, <2>8, <2>9 DEF ModesTwoInv
  <2>11. \A g \in Decoders \ raced' :
           ~reconnect' /\ (\A u \in Pair : Turns(u, g)' => u \in stale') => (g \in want' <=> g \in has')
    BY <2>5, <2>9 DEF ModesTwoInv
  <2>12. \A g \in Decoders, u, w \in Pair : u # w /\ Turns(u, g)' /\ Turns(w, g)' => g \in raced'
    BY <2>5, <2>8, <2>9 DEF ModesTwoInv
  <2> QED BY <1>0, <2>5, <2>7, <2>10, <2>11, <2>12 DEF ModesTwoInv
<1>7. ASSUME NEW t \in Pair, ModesTwo!DropFT8(t) PROVE FALSE
  <2>1. todo[t] # <<>> /\ Head(todo[t]).do = "noft8"
    BY <1>7 DEF ModesTwo!DropFT8, ModesTwo!At
  <2> QED BY <1>a, <2>1, DoIs DEF TwoTasks
<1>8. ASSUME NEW t \in Pair, ModesTwo!Attach(t) PROVE ModesTwoInv'
  <2>1. todo[t] # <<>> /\ Head(todo[t]).do \in {"attach", "detach"} /\ TodoLeft(t, <<>>)
    BY <1>8 DEF ModesTwo!Attach, ModesTwo!Then, TodoLeft
  <2>2. Tail(todo[t]) \in {<<>>, <<Do("mode", "USB")>>} /\ Head(todo[t]).arg \in Decoders
    BY <1>a, <2>1, DoIs DEF TwoTasks, Decoders
  <2>3. /\ <<>> \in TwoPlans /\ <<Do("mode", "USB")>> \in TwoPlans
        /\ Head(<<Do("mode", "USB")>>).do = "mode"
    BY DoIs DEF TwoPlans, TwoTasks
  <2>4. /\ todo' \in [Pair -> TwoPlans] /\ (\A u \in Pair \ {t} : todo'[u] = todo[u])
        /\ todo'[t] \in {<<>>, <<Do("mode", "USB")>>}
    BY <1>0, <2>1, <2>2, <2>3, TwoAlone DEF TodoLeft
  <2>5. /\ UNCHANGED <<mode, want, stale, reconnect, raced, watch>>
        /\ has' = IF t \in stale THEN has
                  ELSE IF Head(todo[t]).do = "attach" THEN has \cup {Head(todo[t]).arg}
                  ELSE has \ {Head(todo[t]).arg}
    BY <1>8 DEF ModesTwo!Attach, ModesTwo!Arg
  <2>6. /\ \A g \in Decoders, u \in Pair \ {t} : Turns(u, g)' <=> Turns(u, g)
        /\ \A g \in Decoders : ~Turns(t, g)' /\ (Turns(t, g) <=> g = Head(todo[t]).arg)
    BY <2>1, <2>3, <2>4 DEF Turns
  <2>7. \A g \in Decoders \ raced :
          ~reconnect /\ (\A u \in Pair : Turns(u, g)' => u \in stale) => (g \in want <=> g \in has')
    <3> SUFFICES ASSUME NEW g \in Decoders \ raced, ~reconnect,
                        \A u \in Pair : Turns(u, g)' => u \in stale
                 PROVE  g \in want <=> g \in has'
      OBVIOUS
    <3>1. CASE t \in stale \/ g # Head(todo[t]).arg
      <4>1. \A u \in Pair : Turns(u, g) => u \in stale
        BY <2>6, <3>1
      <4>2. g \in has' <=> g \in has
        BY <2>5, <3>1
      <4> QED BY <4>1, <4>2 DEF ModesTwoInv
    <3>2. CASE t \notin stale /\ g = Head(todo[t]).arg
      <4>1. Head(todo[t]).do = "attach" <=> g \in want
        BY <2>6, <3>2 DEF ModesTwoInv
      <4> QED BY <2>1, <2>5, <3>2, <4>1
    <3> QED BY <3>1, <3>2
  <2> QED BY <1>0, <2>4, <2>5, <2>6, <2>7 DEF ModesTwoInv
<1>9. CASE ModesTwo!Setup
  <2>1. \A f \in Decoders, u \in Pair : Turns(u, f)' <=> Turns(u, f)
    BY <1>9 DEF ModesTwo!Setup, Turns
  <2>2. /\ UNCHANGED <<mode, want, todo, raced, watch>> /\ stale' = Pair /\ has' = ModesTwo!SessionChain
    BY <1>9 DEF ModesTwo!Setup, ModesTwo!Rebuild
  <2> QED BY <1>0, <2>1, <2>2, ChainsTwo DEF ModesTwoInv
<1>10. CASE ModesTwo!WatchdogRead \/ ModesTwo!WatchdogSet
  <2>1. \A f \in Decoders, u \in Pair : Turns(u, f)' <=> Turns(u, f)
    BY <1>10 DEF ModesTwo!WatchdogRead, ModesTwo!WatchdogSet, Turns
  <2>2. /\ UNCHANGED <<want, todo, raced, reconnect>>
        /\ mode' \in {"USB", "NFM", "AM"} /\ watch' \in {"USB", "NFM", "AM", "idle"}
        /\ UNCHANGED <<has, stale>> \/ (stale' = Pair /\ has' = ModesTwo!ModeChain)
    BY <1>0, <1>10 DEF ModesTwo!WatchdogRead, ModesTwo!WatchdogSet, ModesTwo!SetModeTo, ModesTwo!Rebuild
  <2> QED BY <1>0, <2>1, <2>2, ChainsTwo DEF ModesTwoInv
<1>11. ASSUME NEW t \in Pair, ModesTwo!Step(t) PROVE ModesTwoInv'
  <2>1. ModesTwo!SetFT8Enabled(t) => ModesTwo!SetDecoder(t, "ft8", {"USB"})
    BY DEF ModesTwo!SetFT8Enabled
  <2>2. ModesTwo!SetAPRSEnabled(t) => ModesTwo!SetDecoder(t, "aprs", {"USB", "NFM", "AM"})
    BY DEF ModesTwo!SetAPRSEnabled, ModesTwo!Mode
  <2>3. /\ ~ModesTwo!SetAISRFEnabled(t) /\ ~ModesTwo!SetNoiseReduction(t)
        /\ ~ModesTwo!SetWefaxEnabled(t) /\ ~ModesTwo!SetRTTYEnabled(t)
    BY DEF ModesTwo!SetAISRFEnabled, ModesTwo!SetNoiseReduction, ModesTwo!SetWefaxEnabled,
           ModesTwo!SetRTTYEnabled
  <2> QED BY <1>2, <1>3, <1>4, <1>5, <1>6, <1>7, <1>8, <1>11, <2>1, <2>2, <2>3
          DEF ModesTwo!Step, Decoders
<1> QED BY <1>1, <1>9, <1>10, <1>11 DEF ModesTwo!Next


-----------------------------------------------------------------------------
(* One caller of the decoders, AIS RF among them.                          *)

Singles == {"ft8", "ais", "nr", "wefax", "rtty"}

AisOn   == Do("ais", "on")
Lock    == Do("mode", "NFM")
OffFt8  == Do("detach", "ft8")

OneTasks ==
    {Do("mode", m) : m \in {"USB", "NFM", "AM"}}
      \cup {Do("rate", "new"), Do("rebuild", "now"), Do("bandwidth", "some")}
      \cup {Do(f, a) : f \in Singles, a \in {"on", "off"}}
      \cup {Do(d, f) : d \in {"attach", "detach"}, f \in {"ft8", "ais"}}

OnePlans ==
    {<<>>} \cup {<<c>> : c \in OneTasks}
      \cup {<<Do("noft8", "now"), AisOn>>, <<Do("ft8", "off"), AisOn>>, <<OffFt8, AisOn>>,
            <<Do("attach", "ft8"), Do("mode", "USB")>>, <<Do("attach", "ais"), Lock>>}

(* What follows the first step of a call (SetAISRFEnabled,                 *)
(* SetFT8Enabled).                                                         *)
LEMMA OneSteps ==
    ASSUME NEW s \in OnePlans, s # <<>>
    PROVE  /\ Head(s).do # "noft8" => Head(s) \in OneTasks
           /\ Head(s).do = "noft8" => Tail(s) = <<AisOn>>
           /\ Head(s) \in {Do("ft8", "off"), OffFt8} => Tail(s) \in {<<>>, <<AisOn>>}
           /\ Head(s) = Do("attach", "ft8") => Tail(s) \in {<<>>, <<Do("mode", "USB")>>}
           /\ Head(s) = Do("attach", "ais") => Tail(s) \in {<<>>, <<Lock>>}
           /\ Head(s).do \notin {"noft8", "ft8", "attach", "detach"} => Tail(s) = <<>>
           /\ Head(s) \in {Do("ft8", "on"), Do("detach", "ais")} => Tail(s) = <<>>
  <1>1. ASSUME NEW c \in OneTasks, s = <<c>>
        PROVE  Head(s) = c /\ Tail(s) = <<>> /\ c.do # "noft8"
    BY <1>1, Tails, DoIs DEF OneTasks, Singles
  <1>2. ASSUME NEW a, NEW b, s = <<a, b>>
        PROVE  Head(s) = a /\ Tail(s) = <<b>>
    BY <1>2, Tails
  <1>3. /\ Do("ft8", "off") \in OneTasks /\ OffFt8 \in OneTasks
        /\ Do("attach", "ft8") \in OneTasks /\ Do("attach", "ais") \in OneTasks
    BY DEF OneTasks, OffFt8, Singles
  <1>4. CASE s = <<Do("noft8", "now"), AisOn>>
    BY <1>2, <1>4, DoIs DEF OffFt8
  <1>5. CASE s = <<Do("ft8", "off"), AisOn>>
    BY <1>2, <1>3, <1>5, DoIs
  <1>6. CASE s = <<OffFt8, AisOn>>
    BY <1>2, <1>3, <1>6, DoIs DEF OffFt8
  <1>7. CASE s = <<Do("attach", "ft8"), Do("mode", "USB")>>
    BY <1>2, <1>3, <1>7, DoIs DEF OffFt8
  <1>8. CASE s = <<Do("attach", "ais"), Lock>>
    BY <1>2, <1>3, <1>8, DoIs DEF OffFt8
  <1> QED BY <1>1, <1>4, <1>5, <1>6, <1>7, <1>8 DEF OnePlans

(* Nothing before or after a plan leaves it as it is (RadioModes, Then).   *)
LEMMA OneAlone ==
    \A s \in OnePlans : s \o <<>> = s /\ <<>> \o s = s
  BY Alone DEF OnePlans

(* What a step leaves of the one caller's plan (RadioModes, Then).         *)
LEMMA OneLeft ==
    ASSUME NEW t \in Single, todo \in [Single -> OnePlans], Tail(todo[t]) \in OnePlans,
           NEW s \in OnePlans, TodoLeft(t, s)
    PROVE  /\ Tail(todo[t]) = <<>> => todo' \in [Single -> OnePlans] /\ todo'[t] = s
           /\ s = <<>> => todo' \in [Single -> OnePlans] /\ todo'[t] = Tail(todo[t])
<1>1. CASE Tail(todo[t]) = <<>>
  <2>1. s \o Tail(todo[t]) = s
    BY <1>1, OneAlone
  <2> QED BY <1>1, <2>1 DEF TodoLeft
<1>2. CASE s = <<>> /\ Tail(todo[t]) # <<>>
  <2>1. s \o Tail(todo[t]) = Tail(todo[t])
    BY <1>2, OneAlone
  <2> QED BY <1>2, <2>1 DEF TodoLeft
<1> QED BY <1>1, <1>2

\* The call is about to switch AIS RF on, or about to give the mode to it.
AisNext(t) ==
    todo[t] # <<>> /\ (Head(todo[t]) = AisOn \/ (Head(todo[t]) = OffFt8 /\ Tail(todo[t]) = <<AisOn>>))
LockNext(t) ==
    /\ todo[t] # <<>>
    /\ Head(todo[t]) = Lock \/ (Head(todo[t]) = Do("attach", "ais") /\ Tail(todo[t]) = <<Lock>>)

ModesOneInv ==
    /\ todo \in [Single -> OnePlans]
    /\ mode \in {"USB", "NFM", "AM"} /\ watch \in {"USB", "NFM", "AM", "idle"}
    /\ \A t \in Single : AisNext(t) => "ft8" \notin want
    /\ "ais" \in want => mode = "NFM" \/ \E t \in Single : LockNext(t) /\ "ft8" \notin want

(* A decoder that is switched is attached, and given its mode, or it is    *)
(* detached (SetFT8Enabled, SetAISRFEnabled).                              *)
LEMMA OneDecoder ==
    ASSUME NEW t, NEW f, NEW home, ModesOne!SetDecoder(t, f, home)
    PROVE  /\ todo[t] # <<>> /\ Head(todo[t]).do = f /\ UNCHANGED <<mode, watch>>
           /\ Head(todo[t]).arg = "on" =>
                /\ want' = want \cup {f}
                /\ mode \in home => TodoLeft(t, <<Do("attach", f)>>)
                /\ mode \notin home =>
                     TodoLeft(t, <<Do("attach", f), Do("mode", CHOOSE m \in home : TRUE)>>)
           /\ Head(todo[t]).arg # "on" => want' = want \ {f} /\ TodoLeft(t, <<Do("detach", f)>>)
<1>1. todo[t] # <<>> /\ Head(todo[t]).do = f /\ UNCHANGED <<mode, watch>>
      /\ want' = IF ModesOne!On(t) THEN want \cup {f} ELSE want \ {f}
  BY DEF ModesOne!SetDecoder, ModesOne!At
<1>2. TodoLeft(t, <<ModesOne!Task(IF ModesOne!On(t) THEN "attach" ELSE "detach", f)>> \o
                    IF ModesOne!On(t) /\ mode \notin home
                      THEN <<ModesOne!Task("mode", CHOOSE m \in home : TRUE)>> ELSE <<>>)
  BY DEF ModesOne!SetDecoder, ModesOne!Then, TodoLeft
<1>3. ModesOne!On(t) <=> Head(todo[t]).arg = "on"
  BY DEF ModesOne!On, ModesOne!Arg
<1>4. CASE ModesOne!On(t) /\ mode \in home
  <2>1. TodoLeft(t, <<ModesOne!Task("attach", f)>> \o <<>>)
    BY <1>2, <1>4
  <2>2. <<ModesOne!Task("attach", f)>> \o <<>> = <<Do("attach", f)>>
    BY Alone, DoIs
  <2> QED BY <1>1, <1>3, <1>4, <2>1, <2>2
<1>5. CASE ModesOne!On(t) /\ mode \notin home
  <2>1. TodoLeft(t, <<ModesOne!Task("attach", f)>> \o <<ModesOne!Task("mode", CHOOSE m \in home : TRUE)>>)
    BY <1>2, <1>5
  <2>2. <<ModesOne!Task("attach", f)>> \o <<ModesOne!Task("mode", CHOOSE m \in home : TRUE)>>
          = <<Do("attach", f), Do("mode", CHOOSE m \in home : TRUE)>>
    BY OneAndOne, DoIs
  <2> QED BY <1>1, <1>3, <1>5, <2>1, <2>2
<1>6. CASE ~ModesOne!On(t)
  <2>1. TodoLeft(t, <<ModesOne!Task("detach", f)>> \o <<>>)
    BY <1>2, <1>6
  <2>2. <<ModesOne!Task("detach", f)>> \o <<>> = <<Do("detach", f)>>
    BY Alone, DoIs
  <2> QED BY <1>1, <1>3, <1>6, <2>1, <2>2
<1> QED BY <1>4, <1>5, <1>6

(* SetMode never takes NFM from AIS RF (SetMode).                          *)
LEMMA KeepsNfm ==
    ASSUME NEW m \in {"USB", "NFM", "AM"}, mode \in {"USB", "NFM", "AM"}, ModesOne!SetModeTo(m)
    PROVE  /\ mode' \in {"USB", "NFM", "AM"}
           /\ "ais" \in want /\ mode = "NFM" => mode' = "NFM"
           /\ m = "NFM" /\ "ft8" \notin want => mode' = "NFM"
  BY DEF ModesOne!SetModeTo, ModesOne!Rejected

(* A step that is not about AIS RF: what the call is left with neither     *)
(* switches it on nor gives it the mode, and did not before.               *)
LEMMA AisUntouched ==
    ASSUME ModesOneInv, NEW t \in Single, Single = {t}, ~LockNext(t),
           todo' \in [Single -> OnePlans], todo'[t] = <<>> \/ Head(todo'[t]) \notin {AisOn, OffFt8},
           mode' \in {"USB", "NFM", "AM"}, watch' \in {"USB", "NFM", "AM", "idle"},
           "ais" \in want' => "ais" \in want,
           "ais" \in want /\ mode = "NFM" => mode' = "NFM"
    PROVE  ModesOneInv'
<1>1. ~AisNext(t)'
  BY DEF AisNext
<1> QED BY <1>1 DEF ModesOneInv

(* A step of the one caller, of the session or of its watchdog leaves AIS  *)
(* RF in NFM, or about to get there (SetAISRFEnabled, SetMode).            *)
LEMMA ModesOneStep ==
    ASSUME ControlAssumption, ModesOneInv, ModesOne!Next
    PROVE  ModesOneInv'
<1>0. /\ todo \in [Single -> OnePlans] /\ mode \in {"USB", "NFM", "AM"}
      /\ watch \in {"USB", "NFM", "AM", "idle"} /\ \A t \in Single : Single = {t}
  BY DEF ModesOneInv, ControlAssumption
<1>a. \A t \in Single : todo[t] # <<>> =>
        /\ Head(todo[t]).do # "noft8" => Head(todo[t]) \in OneTasks
        /\ Head(todo[t]).do = "noft8" => Tail(todo[t]) = <<AisOn>>
        /\ Head(todo[t]) \in {Do("ft8", "off"), OffFt8} => Tail(todo[t]) \in {<<>>, <<AisOn>>}
        /\ Head(todo[t]) = Do("attach", "ft8") => Tail(todo[t]) \in {<<>>, <<Do("mode", "USB")>>}
        /\ Head(todo[t]) = Do("attach", "ais") => Tail(todo[t]) \in {<<>>, <<Lock>>}
        /\ Head(todo[t]).do \notin {"noft8", "ft8", "attach", "detach"} => Tail(todo[t]) = <<>>
        /\ Head(todo[t]) \in {Do("ft8", "on"), Do("detach", "ais")} => Tail(todo[t]) = <<>>
  BY <1>0, OneSteps
<1>b. /\ <<>> \in OnePlans /\ \A c \in OneTasks : <<c>> \in OnePlans
      /\ AisOn \in OneTasks /\ Lock \in OneTasks /\ Do("mode", "USB") \in OneTasks
      /\ Do("rebuild", "now") \in OneTasks /\ Do("ft8", "off") \in OneTasks /\ OffFt8 \in OneTasks
      /\ Do("attach", "ft8") \in OneTasks /\ Do("attach", "ais") \in OneTasks /\ Do("detach", "ais") \in OneTasks
  BY DEF OnePlans, OneTasks, AisOn, Lock, OffFt8, Singles
<1>1. ASSUME NEW t \in Single, ModesOne!Enter(t) PROVE ModesOneInv'
  <2>1. ASSUME NEW c \in ModesOne!Call
        PROVE  c \in OneTasks /\ c.do \notin {"attach", "detach"}
    <3>1. ASSUME c \in [do : Singles, arg : {"on", "off"}]
          PROVE  c \in OneTasks /\ c.do \in Singles
      <4>1. c = Do(c.do, c.arg) /\ c.do \in Singles /\ c.arg \in {"on", "off"}
        BY <3>1 DEF Do, ModesTwo!Task
      <4> QED BY <4>1 DEF OneTasks
    <3>2. ModesOne!Call = {Do("mode", m) : m \in {"USB", "NFM", "AM"}}
             \cup {Do("rate", "new"), Do("bandwidth", "some")} \cup [do : Singles, arg : {"on", "off"}]
      BY DEF ModesOne!Call, ModesOne!Mode, ModesOne!Task, ModesTwo!Task, Do, Singles
    <3>3. CASE c \in [do : Singles, arg : {"on", "off"}]
      BY <3>1, <3>3 DEF Singles
    <3> QED BY <3>2, <3>3, DoIs DEF OneTasks
  <2>a. ModesOne!Task("ais", "on") = AisOn /\ ModesOne!Task("noft8", "now") = Do("noft8", "now")
    BY DoIs DEF AisOn
  <2>b. PICK c \in ModesOne!Call :
          todo' = [todo EXCEPT ![t] = IF c = ModesOne!Task("ais", "on")
                                        THEN <<ModesOne!Task("noft8", "now"), c>> ELSE <<c>>]
    BY <1>1 DEF ModesOne!Enter
  <2>2. todo' = [todo EXCEPT ![t] = IF c = AisOn THEN <<Do("noft8", "now"), c>> ELSE <<c>>]
    BY <2>a, <2>b
  <2>3. CASE c = AisOn
    <3>1. <<Do("noft8", "now"), AisOn>> \in OnePlans /\ Head(<<Do("noft8", "now"), AisOn>>).do = "noft8"
      BY DoIs, Tails DEF OnePlans
    <3>2. todo' \in [Single -> OnePlans] /\ Head(todo'[t]).do = "noft8"
      BY <1>0, <2>2, <2>3, <3>1
    <3>3. AisOn.do = "ais" /\ OffFt8.do = "detach"
      BY DoIs DEF AisOn, OffFt8
    <3>4. todo[t] = <<>> /\ UNCHANGED <<mode, want, watch>>
      BY <1>1 DEF ModesOne!Enter
    <3>5. ~LockNext(t)
      BY <3>4 DEF LockNext
    <3> QED BY <1>0, <3>2, <3>3, <3>4, <3>5, AisUntouched
  <2>4. CASE c # AisOn
    <3>1. <<c>> \in OnePlans /\ Head(<<c>>) = c
      BY <1>b, <2>1, Tails
    <3>2. todo' \in [Single -> OnePlans] /\ Head(todo'[t]) = c
      BY <1>0, <2>2, <2>4, <3>1
    <3>3. OffFt8.do = "detach"
      BY DoIs DEF OffFt8
    <3>4. todo[t] = <<>> /\ UNCHANGED <<mode, want, watch>>
      BY <1>1 DEF ModesOne!Enter
    <3>5. ~LockNext(t)
      BY <3>4 DEF LockNext
    <3> QED BY <1>0, <2>1, <2>4, <3>2, <3>3, <3>4, <3>5, AisUntouched
  <2> QED BY <2>3, <2>4
<1>2. ASSUME NEW t \in Single, ModesOne!SetMode(t) PROVE ModesOneInv'
  <2>1. todo[t] # <<>> /\ Head(todo[t]).do = "mode" /\ TodoLeft(t, <<>>)
    BY <1>2 DEF ModesOne!SetMode, ModesOne!At, ModesOne!Then, TodoLeft
  <2>2. Tail(todo[t]) = <<>> /\ Head(todo[t]).arg \in {"USB", "NFM", "AM"}
    BY <1>a, <2>1, DoIs DEF OneTasks, Singles
  <2>3. todo' \in [Single -> OnePlans] /\ todo'[t] = <<>>
    BY <1>0, <1>b, <2>1, <2>2, OneLeft
  <2>4. UNCHANGED <<want, watch>> /\ ModesOne!SetModeTo(Head(todo[t]).arg)
    BY <1>2 DEF ModesOne!SetMode, ModesOne!Arg
  <2>5. /\ mode' \in {"USB", "NFM", "AM"} /\ ("ais" \in want /\ mode = "NFM" => mode' = "NFM")
        /\ Head(todo[t]).arg = "NFM" /\ "ft8" \notin want => mode' = "NFM"
    BY <1>0, <2>2, <2>4, KeepsNfm
  <2>6. CASE LockNext(t)
    <3>1. Head(todo[t]).arg = "NFM"
      BY <2>1, <2>6, DoIs DEF LockNext, Lock
    <3>2. ~AisNext(t)'
      BY <2>3 DEF AisNext
    <3> QED BY <1>0, <2>3, <2>4, <2>5, <3>1, <3>2 DEF ModesOneInv
  <2>7. CASE ~LockNext(t)
    BY <1>0, <2>3, <2>4, <2>5, <2>7, AisUntouched
  <2> QED BY <2>6, <2>7
<1>3. ASSUME NEW t \in Single, ModesOne!SetBandwidth(t) \/ ModesOne!CaptureRebuild(t) PROVE ModesOneInv'
  <2>1. todo[t] # <<>> /\ Head(todo[t]).do \in {"bandwidth", "rebuild"} /\ TodoLeft(t, <<>>)
    BY <1>3 DEF ModesOne!SetBandwidth, ModesOne!CaptureRebuild, ModesOne!At, ModesOne!Then, TodoLeft
  <2>2. Tail(todo[t]) = <<>>
    BY <1>a, <2>1
  <2>3. todo' \in [Single -> OnePlans] /\ todo'[t] = <<>>
    BY <1>0, <1>b, <2>1, <2>2, OneLeft
  <2>4. UNCHANGED <<want, watch, mode>>
    BY <1>3 DEF ModesOne!SetBandwidth, ModesOne!CaptureRebuild
  <2>5. ~LockNext(t)
    BY <2>1, DoIs DEF LockNext, Lock
  <2> QED BY <1>0, <2>3, <2>4, <2>5, AisUntouched
<1>4. ASSUME NEW t \in Single, ModesOne!SetCaptureRate(t) PROVE ModesOneInv'
  <2>1. /\ todo[t] # <<>> /\ Head(todo[t]).do = "rate"
        /\ TodoLeft(t, <<>>) \/ TodoLeft(t, <<Do("rebuild", "now")>>)
    BY <1>4, DoIs DEF ModesOne!SetCaptureRate, ModesOne!At, ModesOne!Then, TodoLeft
  <2>2. Tail(todo[t]) = <<>>
    BY <1>a, <2>1
  <2>3. todo' \in [Single -> OnePlans] /\ todo'[t] \in {<<>>, <<Do("rebuild", "now")>>}
    BY <1>0, <1>b, <2>1, <2>2, OneLeft, Zenon
  <2>4. UNCHANGED <<want, watch, mode>>
    BY <1>4 DEF ModesOne!SetCaptureRate
  <2>5. ~LockNext(t)
    BY <2>1, DoIs DEF LockNext, Lock
  <2>6. Head(<<Do("rebuild", "now")>>) \notin {AisOn, OffFt8}
    BY DoIs, Tails DEF AisOn, OffFt8
  <2> QED BY <1>0, <2>3, <2>4, <2>5, <2>6, AisUntouched
<1>5. ASSUME NEW t \in Single, NEW f \in {"nr", "wefax", "rtty"}, ModesOne!SetAudioFx(t, f)
      PROVE  ModesOneInv'
  <2>1. todo[t] # <<>> /\ Head(todo[t]).do = f /\ TodoLeft(t, <<>>)
    BY <1>5 DEF ModesOne!SetAudioFx, ModesOne!At, ModesOne!Then, TodoLeft
  <2>2. Tail(todo[t]) = <<>>
    BY <1>a, <2>1
  <2>3. todo' \in [Single -> OnePlans] /\ todo'[t] = <<>>
    BY <1>0, <1>b, <2>1, <2>2, OneLeft
  <2>4. UNCHANGED <<watch, mode>> /\ ("ais" \in want' => "ais" \in want)
    BY <1>5 DEF ModesOne!SetAudioFx
  <2>5. ~LockNext(t)
    BY <2>1, DoIs DEF LockNext, Lock
  <2> QED BY <1>0, <2>3, <2>4, <2>5, AisUntouched
<1>6. ASSUME NEW t \in Single, ModesOne!SetFT8Enabled(t) PROVE ModesOneInv'
  <2>0. ModesOne!SetDecoder(t, "ft8", {"USB"})
    BY <1>6 DEF ModesOne!SetFT8Enabled
  <2>1. todo[t] # <<>> /\ Head(todo[t]).do = "ft8" /\ UNCHANGED <<mode, watch>>
    BY <2>0, OneDecoder
  <2>2. Head(todo[t]) \in {Do("ft8", "on"), Do("ft8", "off")}
    BY <1>a, <2>1, DoIs DEF OneTasks, Singles
  <2>3. ~LockNext(t)
    BY <2>1, DoIs DEF LockNext, Lock
  <2>4. CASE Head(todo[t]) = Do("ft8", "on")
    <3>1. Tail(todo[t]) = <<>> /\ Head(todo[t]).arg = "on"
      BY <1>a, <2>1, <2>4, DoIs
    <3>2. (CHOOSE m \in {"USB"} : TRUE) = "USB"
      OBVIOUS
    <3>3. want' = want \cup {"ft8"}
      BY <2>0, <3>1, OneDecoder
    <3>4. TodoLeft(t, <<Do("attach", "ft8")>>) \/ TodoLeft(t, <<Do("attach", "ft8"), Do("mode", "USB")>>)
      BY <2>0, <3>1, <3>2, OneDecoder
    <3>5. <<Do("attach", "ft8")>> \in OnePlans /\ <<Do("attach", "ft8"), Do("mode", "USB")>> \in OnePlans
      BY <1>b DEF OnePlans
    <3>6. todo' \in [Single -> OnePlans]
          /\ todo'[t] \in {<<Do("attach", "ft8")>>, <<Do("attach", "ft8"), Do("mode", "USB")>>}
      BY <1>0, <1>b, <3>1, <3>4, <3>5, OneLeft
    <3>7. Head(todo'[t]) = Do("attach", "ft8")
      BY <3>6, Tails
    <3>8. Do("attach", "ft8") \notin {AisOn, OffFt8}
      BY DoIs DEF AisOn, OffFt8
    <3> QED BY <1>0, <2>1, <2>3, <3>3, <3>6, <3>7, <3>8, AisUntouched
  <2>5. CASE Head(todo[t]) = Do("ft8", "off")
    <3>1. want' = want \ {"ft8"} /\ TodoLeft(t, <<OffFt8>>)
      <4>1. Head(todo[t]).arg # "on"
        BY <2>5, DoIs
      <4> QED BY <2>0, <4>1, OneDecoder DEF OffFt8
    <3>3. CASE Tail(todo[t]) = <<>>
      <4>1. todo' \in [Single -> OnePlans] /\ todo'[t] = <<OffFt8>>
        BY <1>0, <1>b, <3>1, <3>3, OneLeft
      <4> QED BY <1>0, <2>1, <2>3, <3>1, <4>1 DEF ModesOneInv
    <3>4. CASE Tail(todo[t]) = <<AisOn>>
      <4>1. <<OffFt8>> \o Tail(todo[t]) = <<OffFt8, AisOn>>
        BY <3>4, OneAndOne
      <4>2. todo' \in [Single -> OnePlans]
        BY <1>0, <3>1, <4>1 DEF TodoLeft, OnePlans
      <4> QED BY <1>0, <2>1, <2>3, <3>1, <4>2 DEF ModesOneInv
    <3> QED BY <1>a, <2>1, <2>5, <3>3, <3>4
  <2> QED BY <2>2, <2>4, <2>5
<1>7. ASSUME NEW t \in Single, ModesOne!SetAISRFEnabled(t) PROVE ModesOneInv'
  <2>0. ModesOne!SetDecoder(t, "ais", {"NFM"})
    BY <1>7 DEF ModesOne!SetAISRFEnabled
  <2>1. todo[t] # <<>> /\ Head(todo[t]).do = "ais" /\ UNCHANGED <<mode, watch>>
    BY <2>0, OneDecoder
  <2>2. Head(todo[t]) \in {AisOn, Do("ais", "off")} /\ Tail(todo[t]) = <<>>
    BY <1>a, <2>1, DoIs DEF OneTasks, Singles, AisOn
  <2>3. CASE Head(todo[t]) = AisOn
    <3>2. (CHOOSE m \in {"NFM"} : TRUE) = "NFM" /\ Head(todo[t]).arg = "on"
      BY <2>3, DoIs DEF AisOn
    <3>1. want' = want \cup {"ais"}
      BY <2>0, <3>2, OneDecoder
    <3>4. /\ mode = "NFM" => TodoLeft(t, <<Do("attach", "ais")>>)
          /\ mode # "NFM" => TodoLeft(t, <<Do("attach", "ais"), Lock>>)
      BY <2>0, <3>2, OneDecoder, Zenon DEF Lock
    <3>5. <<Do("attach", "ais")>> \in OnePlans /\ <<Do("attach", "ais"), Lock>> \in OnePlans
      BY <1>b DEF OnePlans
    <3>6. todo' \in [Single -> OnePlans]
          /\ todo'[t] = IF mode = "NFM" THEN <<Do("attach", "ais")>> ELSE <<Do("attach", "ais"), Lock>>
      BY <1>0, <1>b, <2>2, <3>4, <3>5, OneLeft
    <3>7. Head(todo'[t]) = Do("attach", "ais") /\ todo'[t] # <<>>
          /\ (mode # "NFM" => Tail(todo'[t]) = <<Lock>>)
      BY <3>6, Tails
    <3>8. Do("attach", "ais") \notin {AisOn, OffFt8}
      BY DoIs DEF AisOn, OffFt8
    <3>9. AisNext(t)
      BY <2>1, <2>3 DEF AisNext
    <3>10. "ft8" \notin want'
      BY <3>1, <3>9 DEF ModesOneInv
    <3>11. ~AisNext(t)' /\ (mode # "NFM" => LockNext(t)')
      BY <3>7, <3>8 DEF AisNext, LockNext
    <3> QED BY <1>0, <2>1, <3>6, <3>10, <3>11 DEF ModesOneInv
  <2>4. CASE Head(todo[t]) = Do("ais", "off")
    <3>1. want' = want \ {"ais"} /\ TodoLeft(t, <<Do("detach", "ais")>>)
      <4>1. Head(todo[t]).arg # "on"
        BY <2>4, DoIs
      <4> QED BY <2>0, <4>1, OneDecoder, Zenon
    <3>3. todo' \in [Single -> OnePlans] /\ todo'[t] = <<Do("detach", "ais")>>
      BY <1>0, <1>b, <2>2, <3>1, OneLeft, Zenon
    <3>4. Do("detach", "ais") \notin {AisOn, OffFt8} /\ Head(<<Do("detach", "ais")>>) = Do("detach", "ais")
      BY DoIs, Tails DEF AisOn, OffFt8
    <3>5. ~LockNext(t)
      BY <2>1, DoIs DEF LockNext, Lock
    <3> QED BY <1>0, <2>1, <3>1, <3>3, <3>4, <3>5, AisUntouched
  <2> QED BY <2>2, <2>3, <2>4
<1>8. ASSUME NEW t \in Single, ModesOne!DropFT8(t) PROVE ModesOneInv'
  <2>1. /\ todo[t] # <<>> /\ Head(todo[t]).do = "noft8" /\ UNCHANGED <<mode, watch, want>>
        /\ TodoLeft(t, IF "ft8" \in want THEN <<Do("ft8", "off")>> ELSE <<>>)
    BY <1>8, DoIs, Zenon DEF ModesOne!DropFT8, ModesOne!At, ModesOne!Then, TodoLeft
  <2>2. Tail(todo[t]) = <<AisOn>>
    BY <1>a, <2>1
  <2>3. ~LockNext(t)
    BY <2>1, DoIs DEF LockNext, Lock
  <2>4. CASE "ft8" \in want
    <3>1. <<Do("ft8", "off")>> \o Tail(todo[t]) = <<Do("ft8", "off"), AisOn>>
      BY <2>2, OneAndOne
    <3>2. todo' \in [Single -> OnePlans] /\ todo'[t] = <<Do("ft8", "off"), AisOn>>
      <4>1. <<Do("ft8", "off"), AisOn>> \in OnePlans
        BY DEF OnePlans
      <4> QED BY <1>0, <2>1, <2>4, <3>1, <4>1, Zenon DEF TodoLeft
    <3>3. Head(todo'[t]) = Do("ft8", "off") /\ Do("ft8", "off") \notin {AisOn, OffFt8}
      BY <3>2, DoIs, Tails DEF AisOn, OffFt8
    <3> QED BY <1>0, <2>1, <2>3, <3>2, <3>3, AisUntouched
  <2>5. CASE "ft8" \notin want
    <3>1. todo' \in [Single -> OnePlans]
      BY <1>0, <1>b, <2>1, <2>2, <2>5, OneLeft, Zenon
    <3> QED BY <1>0, <2>1, <2>3, <2>5, <3>1 DEF ModesOneInv
  <2> QED BY <2>4, <2>5
<1>9. ASSUME NEW t \in Single, ModesOne!Attach(t) PROVE ModesOneInv'
  <2>1. /\ todo[t] # <<>> /\ Head(todo[t]).do \in {"attach", "detach"} /\ TodoLeft(t, <<>>)
        /\ UNCHANGED <<mode, watch, want>>
    BY <1>9 DEF ModesOne!Attach, ModesOne!Then, TodoLeft
  <2>2. Head(todo[t]) \in {Do("attach", "ft8"), Do("attach", "ais"), OffFt8, Do("detach", "ais")}
    <3>1. Head(todo[t]) \in OneTasks
      BY <1>a, <2>1
    <3> QED BY <2>1, <3>1, DoIs DEF OneTasks, OffFt8, Singles
  <2>3. Tail(todo[t]) \in {<<>>, <<AisOn>>, <<Do("mode", "USB")>>, <<Lock>>}
    BY <1>a, <2>1, <2>2
  <2>a. Tail(todo[t]) \in OnePlans
    BY <1>b, <2>3
  <2>4. todo' \in [Single -> OnePlans] /\ todo'[t] = Tail(todo[t])
    BY <1>0, <1>b, <2>1, <2>a, OneLeft
  <2>5. /\ Head(<<AisOn>>) = AisOn /\ Head(<<Lock>>) = Lock /\ <<Lock>> # <<>>
        /\ Head(<<Do("mode", "USB")>>) = Do("mode", "USB")
        /\ AisOn.do = "ais" /\ OffFt8.do = "detach" /\ Lock.do = "mode"
        /\ Do("mode", "USB").do = "mode" /\ Do("attach", "ft8").do = "attach"
        /\ Do("attach", "ft8").arg = "ft8" /\ Do("attach", "ais").arg = "ais"
    BY DoIs, Tails DEF AisOn, OffFt8, Lock
  <2>6. CASE LockNext(t)
    <3>1. Tail(todo[t]) = <<Lock>>
      BY <2>1, <2>5, <2>6 DEF LockNext
    <3>2. LockNext(t)' /\ ~AisNext(t)'
      BY <2>4, <2>5, <3>1 DEF LockNext, AisNext
    <3> QED BY <1>0, <2>1, <2>4, <2>6, <3>2 DEF ModesOneInv
  <2>7. CASE ~LockNext(t) /\ Tail(todo[t]) # <<AisOn>>
    <3>1. todo'[t] = <<>> \/ Head(todo'[t]) \notin {AisOn, OffFt8}
      BY <2>3, <2>4, <2>5, <2>7, Zenon
    <3> QED BY <1>0, <2>1, <2>4, <2>7, <3>1, AisUntouched
  <2>8. CASE ~LockNext(t) /\ Tail(todo[t]) = <<AisOn>>
    <3>1. Head(todo[t]) = OffFt8
      <4>1. <<AisOn>> # <<>> /\ <<AisOn>> # <<Do("mode", "USB")>> /\ <<AisOn>> # <<Lock>>
        BY <2>5
      <4>2. Do("detach", "ais") # Do("attach", "ais")
        BY DoIs
      <4> QED BY <1>a, <2>1, <2>2, <2>8, <4>1, Zenon
    <3>2. AisNext(t)
      BY <2>1, <2>8, <3>1 DEF AisNext
    <3> QED BY <1>0, <2>1, <2>4, <2>8, <3>2 DEF ModesOneInv
  <2> QED BY <2>6, <2>7, <2>8
<1>10. CASE ModesOne!Setup \/ ModesOne!WatchdogRead \/ ModesOne!WatchdogSet
  <2>1. todo' = todo /\ want' = want
    BY <1>10 DEF ModesOne!Setup, ModesOne!WatchdogRead, ModesOne!WatchdogSet
  <2>2. /\ mode' \in {"USB", "NFM", "AM"} /\ watch' \in {"USB", "NFM", "AM", "idle"}
        /\ "ais" \in want /\ mode = "NFM" => mode' = "NFM"
    BY <1>0, <1>10, KeepsNfm DEF ModesOne!Setup, ModesOne!WatchdogRead, ModesOne!WatchdogSet
  <2>3. \A t \in Single : (AisNext(t)' <=> AisNext(t)) /\ (LockNext(t)' <=> LockNext(t))
    BY <2>1 DEF AisNext, LockNext
  <2> QED BY <1>0, <2>1, <2>2, <2>3 DEF ModesOneInv
<1>11. ASSUME NEW t \in Single, ModesOne!Step(t) PROVE ModesOneInv'
  <2>1. ~ModesOne!SetAPRSEnabled(t)
    BY DEF ModesOne!SetAPRSEnabled
  <2> QED BY <1>2, <1>3, <1>4, <1>5, <1>6, <1>7, <1>8, <1>9, <1>11, <2>1
          DEF ModesOne!Step, ModesOne!SetNoiseReduction, ModesOne!SetWefaxEnabled, ModesOne!SetRTTYEnabled
<1> QED BY <1>1, <1>10, <1>11 DEF ModesOne!Next
=============================================================================
