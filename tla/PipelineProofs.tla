--------------------------- MODULE PipelineProofs ---------------------------
(***************************************************************************)
(* Machine-checked proofs about Pipeline, for any number of stages, sizes  *)
(* of pools and payloads.                                                  *)
(***************************************************************************)
EXTENDS Pipeline, TLAPS

(* What is held was taken from the source, and so was what is marked.  The *)
(* source receives nothing.                                                *)
Taken ==
  /\ \A g \in Routine : Held(g) => item[g] \in 1 .. produced
  /\ marked \subseteq 1 .. produced
  /\ pc[Source] \in {"next", "send", "exit"}

(* While nothing goes wrong, groups exit in order, and a channel is closed *)
(* only behind all that send on it: also stageCh[0], which the sink closes *)
(* too, because the sink is last.                                          *)
Smooth == emitted = 0 /\ ~expired
Exited(g) == pc[g] = "exit"
ExitInOrder ==
  /\ \A g, h \in Routine : Exited(g) /\ GroupOf(h) < GroupOf(g) => Exited(h)
  /\ \A c \in Chan : closed[c] => \A h \in Routine : GroupOf(h) <= c => Exited(h)

(* The context of source and sink is cancelled because of an error or when *)
(* nobody runs any more.                                                   *)
CancelledLate ==
  /\ errCh # << >> => emitted > 0
  /\ \A i \in exited : AllReturned(i)
  /\ cancelled => emitted > 0 \/ exited = Group

(* A payload is on its way to the sink, or was dropped or has got there.   *)
OnItsWay(x) == \E g \in Routine : GroupOf(g) <= N /\ Held(g) /\ item[g] = x
AllKept == \A x \in 1 .. produced : x \in marked \cup ToSet(passed[N]) \/ OnItsWay(x)

PipelineInv ==
  /\ TypeOK /\ Taken /\ MarkedIsFinal /\ FirstErrorKept
  /\ CancelledLate
  /\ Smooth => ExitInOrder /\ AllKept

USE PipelineAssumption

LEMMA Routines ==
  /\ Source \in Routine /\ Sink \in Routine /\ Source # Sink
  /\ GroupOf(Source) = 0 /\ GroupOf(Sink) = N + 1
  /\ \A g \in Routine : /\ GroupOf(g) \in Group
                        /\ GroupOf(g) = 0 => g = Source
                        /\ GroupOf(g) = N + 1 => g = Sink
  /\ \A i \in Group : <<i, 1>> \in Routine /\ GroupOf(<<i, 1>>) = i
<1>1. \A g : g \in Routine <=> \E i \in Group : \E k \in 1 .. Size(i) : g = <<i, k>>
  BY DEF Routine
<1>2. \A i \in Group : Size(i) \in Nat \ {0}
  BY DEF Group, Size
<1>3. Size(0) = 1 /\ Size(N + 1) = 1
  BY DEF Size
<1>4. \A i \in Group : <<i, 1>> \in Routine /\ GroupOf(<<i, 1>>) = i
  BY <1>1, <1>2 DEF GroupOf
<1>5. \A g \in Routine : /\ GroupOf(g) \in Group
                         /\ GroupOf(g) = 0 => g = Source
                         /\ GroupOf(g) = N + 1 => g = Sink
  BY <1>1, <1>3 DEF GroupOf, Source, Sink
<1>6. 0 \in Group /\ N + 1 \in Group /\ 0 # N + 1
  BY DEF Group
<1> QED BY <1>4, <1>5, <1>6 DEF Source, Sink, GroupOf

LEMMA PipelineInitially == Init => PipelineInv
<1> SUFFICES ASSUME Init
             PROVE  PipelineInv
  OBVIOUS
<1>1. TypeOK
  <2>1. /\ pc \in [Routine -> {"next", "recv", "process", "send", "exit"}]
        /\ item \in [Routine -> 0 .. Items]
        /\ produced \in 0 .. Items /\ exited \subseteq Group
    BY DEF Init
  <2>2. closed \in [Chan -> BOOLEAN] /\ {expired, cancelled, panicked} \subseteq BOOLEAN
    BY Zenon DEF Init
  <2>3. /\ errCh \in Seq({"err"}) /\ caller \in {"collect", "returned"}
        /\ {collected, emitted} \subseteq Nat
        /\ passed \in [Chan -> Seq(1 .. Items)] /\ marked \subseteq 1 .. Items
    BY DEF Init
  <2> QED BY <2>1, <2>2, <2>3 DEF TypeOK
<1>2. \A g \in Routine : ~Held(g) /\ ~Exited(g)
  BY DEF Init, Held, Exited
<1>3. Taken /\ MarkedIsFinal /\ FirstErrorKept /\ CancelledLate
  BY <1>2, Routines DEF Init, Taken, MarkedIsFinal, FirstErrorKept, CancelledLate
<1>4. ExitInOrder /\ AllKept
  BY <1>2 DEF Init, ExitInOrder, AllKept
<1> QED BY <1>1, <1>3, <1>4 DEF PipelineInv

-----------------------------------------------------------------------------
(* Whoever does not receive a payload may keep or lose the one it has.     *)
LEMMA FewerAreHeld ==
  ASSUME Taken, MarkedIsFinal, UNCHANGED <<produced, marked>>,
         pc'[Source] \in {"next", "send", "exit"},
         \A g \in Routine : Held(g)' => Held(g) /\ item'[g] = item[g]
  PROVE  Taken' /\ MarkedIsFinal'
BY DEF Taken, MarkedIsFinal

LEMMA EmittedIsKept ==
  ASSUME TypeOK, MaybeEmitError
  PROVE  /\ errCh' \in Seq({"err"}) /\ emitted' \in Nat /\ emitted' > 0
         /\ caller' = caller /\ collected' = collected
         /\ FirstErrorKept' /\ ~Smooth'
<1>1. errCh \in Seq({"err"}) /\ emitted \in Nat /\ collected \in Nat /\ N \in Nat
  BY DEF TypeOK
<1>2. caller' = caller /\ collected' = collected /\ emitted' = emitted + 1
  BY DEF MaybeEmitError
<1>3. errCh' \in Seq({"err"}) /\ Len(errCh') > 0
  <2>1. CASE Len(errCh) < ErrChCap
    BY <1>1, <2>1 DEF MaybeEmitError
  <2>2. CASE ~(Len(errCh) < ErrChCap)
    BY <1>1, <2>2 DEF MaybeEmitError, ErrChCap
  <2> QED BY <2>1, <2>2
<1>4. Len(errCh') \in Nat
  BY <1>3
<1> QED BY <1>1, <1>2, <1>3, <1>4 DEF FirstErrorKept, Smooth

LEMMA SourceNextKeeps == PipelineInv /\ SourceNext => PipelineInv'
<1> SUFFICES ASSUME PipelineInv, SourceNext
             PROVE  PipelineInv'
  OBVIOUS
<1> USE Routines
<1>0. TypeOK /\ Taken /\ MarkedIsFinal /\ FirstErrorKept /\ CancelledLate
  BY DEF PipelineInv
<1>1. /\ produced' = produced + 1 /\ produced \in Nat /\ produced' \in 0 .. Items
      /\ item' = [item EXCEPT ![Source] = produced'] /\ pc' = [pc EXCEPT ![Source] = "send"]
      /\ pc[Source] = "next"
  BY <1>0 DEF SourceNext, TypeOK
<1>2. UNCHANGED <<closed, exited, panicked, passed, expired, cancelled, errCh, caller, collected, emitted, marked>>
  BY DEF SourceNext, chanVars, ctxVars, errVars
<1>3. /\ pc' \in [Routine -> {"next", "recv", "process", "send", "exit"}]
      /\ item' \in [Routine -> 0 .. Items]
  BY <1>0, <1>1 DEF TypeOK
<1>4. TypeOK'
  BY <1>0, <1>1, <1>2, <1>3 DEF TypeOK
<1>5. /\ Held(Source)' /\ item'[Source] = produced + 1 /\ ~Held(Source)
      /\ \A h \in Routine \ {Source} : (Held(h)' <=> Held(h)) /\ item'[h] = item[h]
      /\ \A h \in Routine : Exited(h)' <=> Exited(h)
  BY <1>0, <1>1 DEF Held, Exited, TypeOK
<1>6. Taken'
  BY <1>0, <1>1, <1>2, <1>5 DEF Taken, TypeOK
<1>7. MarkedIsFinal'
  BY <1>0, <1>1, <1>2, <1>5 DEF Taken, MarkedIsFinal, TypeOK
<1>8. FirstErrorKept' /\ CancelledLate' /\ (Smooth' => Smooth)
  BY <1>0, <1>2, <1>5 DEF FirstErrorKept, CancelledLate, Smooth, AllReturned, Exited
<1>9. ExitInOrder => ExitInOrder'
  BY <1>2, <1>5 DEF ExitInOrder
<1>10. AllKept => AllKept'
  <2> SUFFICES ASSUME AllKept, NEW x \in 1 .. produced'
               PROVE  (x \in marked \cup ToSet(passed[N]))' \/ OnItsWay(x)'
    BY DEF AllKept
  <2>1. CASE x = produced + 1
    BY <2>1, <1>5, <1>0 DEF OnItsWay, TypeOK
  <2>2. CASE x \in 1 .. produced
    BY <2>2, <1>2, <1>5 DEF OnItsWay, AllKept
  <2> QED BY <2>1, <2>2, <1>1
<1> QED BY <1>4, <1>6, <1>7, <1>8, <1>9, <1>10 DEF PipelineInv

LEMMA SourceEndKeeps == PipelineInv /\ SourceEnd => PipelineInv'
<1> SUFFICES ASSUME PipelineInv, SourceEnd
             PROVE  PipelineInv'
  OBVIOUS
<1> USE Routines
<1>0. TypeOK /\ Taken /\ MarkedIsFinal /\ FirstErrorKept /\ CancelledLate
  BY DEF PipelineInv
<1>1. pc' = [pc EXCEPT ![Source] = "exit"] /\ pc[Source] = "next"
  BY DEF SourceEnd
<1>2. UNCHANGED <<item, produced, closed, exited, panicked, passed, expired, cancelled, marked>>
  BY DEF SourceEnd, chanVars, ctxVars
<1>3. pc' \in [Routine -> {"next", "recv", "process", "send", "exit"}]
  BY <1>0, <1>1 DEF TypeOK
<1>4. /\ Exited(Source)' /\ ~Held(Source)' /\ ~Held(Source) /\ pc'[Source] = "exit"
      /\ \A h \in Routine \ {Source} : (Held(h)' <=> Held(h)) /\ (Exited(h)' <=> Exited(h))
  BY <1>0, <1>1 DEF Held, Exited, TypeOK
<1>5. Taken' /\ MarkedIsFinal'
  BY <1>0, <1>2, <1>4, FewerAreHeld
<1>6. CASE MaybeEmitError
  <2>1. TypeOK'
    BY <1>0, <1>2, <1>3, <1>6, EmittedIsKept DEF TypeOK
  <2>2. CancelledLate'
    BY <1>0, <1>2, <1>4, <1>6, EmittedIsKept DEF CancelledLate, AllReturned, Exited
  <2> QED BY <1>0, <1>5, <1>6, <2>1, <2>2, EmittedIsKept DEF PipelineInv
<1>7. CASE UNCHANGED errVars
  <2>1. UNCHANGED <<errCh, caller, collected, emitted>>
    BY <1>7 DEF errVars
  <2>2. TypeOK'
    BY <1>0, <1>2, <1>3, <2>1 DEF TypeOK
  <2>3. FirstErrorKept' /\ CancelledLate' /\ (Smooth' => Smooth)
    BY <1>0, <1>2, <2>1, <1>4 DEF FirstErrorKept, CancelledLate, Smooth, AllReturned, Exited
  <2>4. ExitInOrder => ExitInOrder'
    <3>1. \A h \in Routine : ~(GroupOf(h) < 0)
      BY DEF Group
    <3> QED BY <1>2, <1>4, <3>1 DEF ExitInOrder
  <2>5. AllKept => AllKept'
    BY <1>2, <1>4 DEF AllKept, OnItsWay
  <2> QED BY <1>5, <2>2, <2>3, <2>4, <2>5 DEF PipelineInv
<1> QED BY <1>6, <1>7 DEF SourceEnd

LEMMA SendOnClosedKeeps ==
  ASSUME NEW g \in Routine, PipelineInv, SendOnClosed(g)
  PROVE  PipelineInv'
<1> USE DEF SendOnClosed, ctxVars, errVars
<1>0. TypeOK /\ Taken /\ MarkedIsFinal /\ FirstErrorKept /\ CancelledLate
  BY DEF PipelineInv
<1>1. TypeOK'
  BY <1>0, Zenon DEF TypeOK
<1>2. Taken' /\ MarkedIsFinal' /\ FirstErrorKept' /\ CancelledLate' /\ (Smooth' => Smooth)
  BY <1>0 DEF Taken, MarkedIsFinal, Held, FirstErrorKept, CancelledLate, AllReturned, Smooth
<1>3. (ExitInOrder => ExitInOrder') /\ (AllKept => AllKept')
  BY DEF ExitInOrder, AllKept, Exited, OnItsWay, Held
<1> QED BY <1>1, <1>2, <1>3 DEF PipelineInv

LEMMA PassKeeps ==
  ASSUME NEW g \in Routine, NEW h \in Routine, PipelineInv, Pass(g, h)
  PROVE  PipelineInv'
<1> USE Routines
<1>0. TypeOK /\ Taken /\ MarkedIsFinal /\ FirstErrorKept /\ CancelledLate
  BY DEF PipelineInv
<1>1. /\ GroupOf(h) = GroupOf(g) + 1 /\ pc[g] = "send" /\ pc[h] = "recv" /\ g # h
      /\ item' = [item EXCEPT ![h] = item[g], ![g] = 0]
      /\ pc' = [pc EXCEPT ![h] = "process", ![g] = IF g = Source THEN "next" ELSE "recv"]
      /\ passed' = [passed EXCEPT ![GroupOf(g)] = Append(@, item[g])]
  BY DEF Pass, Hand
<1>2. UNCHANGED <<produced, closed, exited, panicked, expired, cancelled, errCh, caller, collected, emitted, marked>>
  BY DEF Pass, ctxVars, errVars
<1>3. item[g] \in 1 .. produced /\ produced \in 0 .. Items /\ item[g] \in 1 .. Items
  BY <1>0, <1>1 DEF Taken, Held, TypeOK
<1>4. GroupOf(g) \in Chan /\ h # Source
  BY <1>1 DEF Group, Chan
<1>5. /\ pc' \in [Routine -> {"next", "recv", "process", "send", "exit"}]
      /\ item' \in [Routine -> 0 .. Items]
  BY <1>0, <1>1, <1>3 DEF TypeOK
<1>6. passed' \in [Chan -> Seq(1 .. Items)]
  <2>1. passed[GroupOf(g)] \in Seq(1 .. Items)
    BY <1>0, <1>4 DEF TypeOK
  <2>2. Append(passed[GroupOf(g)], item[g]) \in Seq(1 .. Items)
    BY <2>1, <1>3
  <2> QED BY <2>2, <1>0, <1>1 DEF TypeOK
<1>7. TypeOK'
  BY <1>0, <1>2, <1>5, <1>6 DEF TypeOK
<1>8. /\ ~Held(g)' /\ Held(g) /\ Held(h)' /\ ~Held(h) /\ item'[h] = item[g]
      /\ \A f \in Routine \ {g, h} : (Held(f)' <=> Held(f)) /\ item'[f] = item[f]
      /\ \A f \in Routine : Exited(f)' <=> Exited(f)
  BY <1>0, <1>1 DEF Held, Exited, TypeOK
<1>9. Taken'
  <2>1. pc'[Source] \in {"next", "send", "exit"}
    BY <1>0, <1>1, <1>4 DEF Taken, TypeOK
  <2> QED BY <2>1, <1>0, <1>2, <1>3, <1>8 DEF Taken
<1>10. MarkedIsFinal'
  BY <1>0, <1>2, <1>8 DEF MarkedIsFinal
<1>11. FirstErrorKept' /\ CancelledLate' /\ (Smooth' => Smooth)
  BY <1>0, <1>2, <1>8 DEF FirstErrorKept, CancelledLate, Smooth, AllReturned, Exited
<1>12. ExitInOrder => ExitInOrder'
  BY <1>2, <1>8 DEF ExitInOrder
<1>13. AllKept => AllKept'
  <2> SUFFICES ASSUME AllKept, NEW x \in 1 .. produced
               PROVE  (x \in marked \cup ToSet(passed[N]))' \/ OnItsWay(x)'
    BY <1>2 DEF AllKept
  <2>1. ToSet(passed[N]) \subseteq ToSet(passed'[N])
    <3>1. N \in Chan /\ passed[N] \in Seq(1 .. Items)
      BY <1>0 DEF Chan, TypeOK
    <3>2. passed'[N] = passed[N] \/ passed'[N] = Append(passed[N], item[g])
      BY <1>0, <1>1, <3>1 DEF TypeOK
    <3>3. ASSUME NEW y, y \in ToSet(passed[N])
          PROVE  y \in ToSet(passed'[N])
      <4>1. PICK k \in DOMAIN passed[N] : passed[N][k] = y
        BY <3>3 DEF ToSet
      <4>2. CASE passed'[N] = passed[N]
        BY <4>2, <3>3
      <4>3. CASE passed'[N] = Append(passed[N], item[g])
        <5>1. k \in 1 .. Len(passed[N]) /\ k \in 1 .. Len(passed'[N]) /\ passed'[N][k] = y
          BY <3>1, <4>1, <4>3, <1>3
        <5>2. DOMAIN passed'[N] = 1 .. Len(passed'[N])
          BY <3>1, <4>3, <1>3
        <5> QED BY <5>1, <5>2 DEF ToSet
      <4> QED BY <3>2, <4>2, <4>3
    <3> QED BY <3>3
  <2>2. CASE x # item[g]
    BY <2>1, <2>2, <1>2, <1>8 DEF OnItsWay, AllKept
  <2>3. CASE x = item[g] /\ GroupOf(h) <= N
    BY <2>3, <1>8 DEF OnItsWay
  <2>4. CASE x = item[g] /\ ~(GroupOf(h) <= N)
    <3>1. GroupOf(g) = N
      BY <2>4, <1>1, <1>4 DEF Chan
    <3>2. N \in Chan /\ passed[N] \in Seq(1 .. Items) /\ passed'[N] = Append(passed[N], x)
      BY <3>1, <2>4, <1>0, <1>1, <1>4 DEF TypeOK
    <3>3. Len(passed[N]) + 1 \in DOMAIN passed'[N] /\ passed'[N][Len(passed[N]) + 1] = x
      BY <3>2, <1>3, <2>4
    <3> QED BY <3>3 DEF ToSet
  <2> QED BY <2>2, <2>3, <2>4
<1> QED BY <1>7, <1>9, <1>10, <1>11, <1>12, <1>13 DEF PipelineInv

(* A worker whose input is closed is the next in the order of exits.       *)
LEMMA ReceiveClosedKeeps ==
  ASSUME NEW g \in Routine, PipelineInv, ReceiveClosed(g)
  PROVE  PipelineInv'
<1> USE Routines
<1>0. TypeOK /\ Taken /\ MarkedIsFinal /\ FirstErrorKept /\ CancelledLate
  BY DEF PipelineInv
<1>1. /\ pc[g] = "recv" /\ closed[GroupOf(g) - 1]
      /\ pc' = [pc EXCEPT ![g] = "exit"] /\ item' = [item EXCEPT ![g] = 0]
  BY DEF ReceiveClosed, Exit
<1>2. UNCHANGED <<produced, closed, exited, panicked, passed, expired, cancelled, errCh, caller, collected, emitted, marked>>
  BY DEF ReceiveClosed, chanVars, ctxVars, errVars
<1>3. /\ pc' \in [Routine -> {"next", "recv", "process", "send", "exit"}]
      /\ item' \in [Routine -> 0 .. Items]
  BY <1>0, <1>1 DEF TypeOK
<1>4. TypeOK'
  BY <1>0, <1>2, <1>3 DEF TypeOK
<1>5. /\ ~Held(g)' /\ ~Held(g) /\ Exited(g)'
      /\ \A f \in Routine \ {g} : /\ (Held(f)' <=> Held(f)) /\ item'[f] = item[f]
                                  /\ Exited(f)' <=> Exited(f)
  BY <1>0, <1>1 DEF Held, Exited, TypeOK
<1>6. g # Source /\ pc'[Source] \in {"next", "send", "exit"}
  BY <1>0, <1>1, <1>3 DEF Taken, TypeOK
<1>7. Taken' /\ MarkedIsFinal'
  BY <1>0, <1>2, <1>5, <1>6, FewerAreHeld
<1>8. FirstErrorKept' /\ CancelledLate' /\ (Smooth' => Smooth)
  BY <1>0, <1>2, <1>5 DEF FirstErrorKept, CancelledLate, Smooth, AllReturned, Exited
<1>9. ExitInOrder => ExitInOrder'
  <2>1. GroupOf(g) - 1 \in Chan /\ GroupOf(g) \in Nat
    BY <1>6 DEF Group, Chan
  <2>2. ExitInOrder => \A h \in Routine : GroupOf(h) <= GroupOf(g) - 1 => Exited(h)
    BY <1>1, <2>1 DEF ExitInOrder
  <2>3. \A h \in Routine : GroupOf(h) < GroupOf(g) => GroupOf(h) <= GroupOf(g) - 1
    BY <2>1 DEF Group
  <2> QED BY <1>2, <1>5, <2>2, <2>3 DEF ExitInOrder
<1>10. AllKept => AllKept'
  BY <1>2, <1>5 DEF AllKept, OnItsWay
<1> QED BY <1>4, <1>7, <1>8, <1>9, <1>10 DEF PipelineInv

(* Nobody leaves early unless something went wrong: the context of source  *)
(* and sink is otherwise cancelled after all have left.                    *)
LEMMA QuitKeeps ==
  ASSUME NEW g \in Routine, PipelineInv, Quit(g)
  PROVE  PipelineInv'
<1> USE Routines
<1>0. TypeOK /\ Taken /\ MarkedIsFinal /\ FirstErrorKept /\ CancelledLate
  BY DEF PipelineInv
<1>1. /\ pc[g] \in {"recv", "send"} /\ Done(g)
      /\ pc' = [pc EXCEPT ![g] = "exit"] /\ item' = [item EXCEPT ![g] = 0]
  BY DEF Quit, Exit
<1>2. UNCHANGED <<produced, closed, exited, panicked, passed, expired, cancelled, errCh, caller, collected, emitted, marked>>
  BY DEF Quit, chanVars, ctxVars, errVars
<1>3. /\ pc' \in [Routine -> {"next", "recv", "process", "send", "exit"}]
      /\ item' \in [Routine -> 0 .. Items]
  BY <1>0, <1>1 DEF TypeOK
<1>4. TypeOK'
  BY <1>0, <1>2, <1>3 DEF TypeOK
<1>5. /\ ~Held(g)' /\ Exited(g)' /\ ~Exited(g)
      /\ \A f \in Routine \ {g} : /\ (Held(f)' <=> Held(f)) /\ item'[f] = item[f]
                                  /\ Exited(f)' <=> Exited(f)
  BY <1>0, <1>1 DEF Held, Exited, TypeOK
<1>6. pc'[Source] \in {"next", "send", "exit"}
  BY <1>0, <1>1 DEF Taken, TypeOK
<1>7. Taken' /\ MarkedIsFinal'
  BY <1>0, <1>2, <1>5, <1>6, FewerAreHeld
<1>8. FirstErrorKept' /\ CancelledLate'
  BY <1>0, <1>2, <1>5 DEF FirstErrorKept, CancelledLate, AllReturned, Exited
<1>9. ~Smooth'
  <2>1. cancelled => emitted > 0 \/ AllReturned(GroupOf(g))
    BY <1>0 DEF CancelledLate
  <2>2. ~AllReturned(GroupOf(g))
    BY <1>5 DEF AllReturned, Exited
  <2> QED BY <1>0, <1>1, <1>2, <2>1, <2>2 DEF Done, Smooth, TypeOK
<1> QED BY <1>4, <1>7, <1>8, <1>9 DEF PipelineInv

LEMMA ForwardKeeps ==
  ASSUME NEW g \in Routine, PipelineInv, Forward(g)
  PROVE  PipelineInv'
<1> USE Routines
<1>0. TypeOK /\ Taken /\ MarkedIsFinal /\ FirstErrorKept /\ CancelledLate
  BY DEF PipelineInv
<1>1. pc[g] = "process" /\ pc' = [pc EXCEPT ![g] = "send"]
  BY DEF Forward
<1>2. UNCHANGED <<item, produced, closed, exited, panicked, passed, expired, cancelled, errCh, caller, collected, emitted, marked>>
  BY DEF Forward, chanVars, ctxVars, errVars
<1>3. pc' \in [Routine -> {"next", "recv", "process", "send", "exit"}]
  BY <1>0, <1>1 DEF TypeOK
<1>4. TypeOK'
  BY <1>0, <1>2, <1>3 DEF TypeOK
<1>5. \A f \in Routine : (Held(f)' <=> Held(f)) /\ (Exited(f)' <=> Exited(f))
  BY <1>0, <1>1 DEF Held, Exited, TypeOK
<1>6. pc'[Source] \in {"next", "send", "exit"}
  BY <1>0, <1>1, <1>3 DEF Taken, TypeOK
<1>7. Taken' /\ MarkedIsFinal'
  BY <1>0, <1>2, <1>5, <1>6, FewerAreHeld
<1>8. FirstErrorKept' /\ CancelledLate' /\ (Smooth' => Smooth)
  BY <1>0, <1>2, <1>5 DEF FirstErrorKept, CancelledLate, Smooth, AllReturned, Exited
<1>9. (ExitInOrder => ExitInOrder') /\ (AllKept => AllKept')
  BY <1>2, <1>5 DEF ExitInOrder, AllKept, OnItsWay
<1> QED BY <1>4, <1>7, <1>8, <1>9 DEF PipelineInv

(* Discard and Consume mark the payload they held.                         *)
LEMMA MarkedKeeps ==
  ASSUME NEW g \in Routine, PipelineInv, pc[g] = "process",
         marked' = marked \cup {item[g]},
         pc' = [pc EXCEPT ![g] = "recv"], item' = [item EXCEPT ![g] = 0],
         UNCHANGED <<produced, chanVars, ctxVars, errVars>>
  PROVE  PipelineInv'
<1> USE Routines
<1>0. TypeOK /\ Taken /\ MarkedIsFinal /\ FirstErrorKept /\ CancelledLate
  BY DEF PipelineInv
<1>1. UNCHANGED <<produced, closed, exited, panicked, passed, expired, cancelled, errCh, caller, collected, emitted>>
  BY DEF chanVars, ctxVars, errVars
<1>2. item[g] \in 1 .. produced /\ produced \in 0 .. Items /\ item[g] \in 1 .. Items
  BY <1>0 DEF Taken, Held, TypeOK
<1>3. /\ pc' \in [Routine -> {"next", "recv", "process", "send", "exit"}]
      /\ item' \in [Routine -> 0 .. Items]
  BY <1>0 DEF TypeOK
<1>4. TypeOK'
  <2>1. marked' \subseteq 1 .. Items
    BY <1>0, <1>2 DEF TypeOK
  <2> QED BY <1>0, <1>1, <1>3, <2>1 DEF TypeOK
<1>5. /\ Held(g) /\ ~Held(g)' /\ ~Exited(g) /\ ~Exited(g)'
      /\ \A f \in Routine \ {g} : /\ (Held(f)' <=> Held(f)) /\ item'[f] = item[f]
                                  /\ Exited(f)' <=> Exited(f)
  BY <1>0 DEF Held, Exited, TypeOK
<1>6. pc'[Source] \in {"next", "send", "exit"}
  BY <1>0, <1>3 DEF Taken, TypeOK
<1>7. Taken'
  BY <1>0, <1>1, <1>2, <1>5, <1>6 DEF Taken
<1>8. MarkedIsFinal'
  BY <1>0, <1>5 DEF MarkedIsFinal
<1>9. FirstErrorKept' /\ CancelledLate' /\ (Smooth' => Smooth)
  BY <1>0, <1>1, <1>5 DEF FirstErrorKept, CancelledLate, Smooth, AllReturned, Exited
<1>10. (ExitInOrder => ExitInOrder') /\ (AllKept => AllKept')
  BY <1>1, <1>5 DEF ExitInOrder, AllKept, OnItsWay
<1> QED BY <1>4, <1>7, <1>8, <1>9, <1>10 DEF PipelineInv

LEMMA ProcessFailsKeeps ==
  ASSUME NEW g \in Routine, PipelineInv, ProcessFails(g)
  PROVE  PipelineInv'
<1> USE Routines
<1>0. TypeOK /\ Taken /\ MarkedIsFinal /\ FirstErrorKept /\ CancelledLate
  BY DEF PipelineInv
<1>1. /\ pc[g] = "process" /\ MaybeEmitError
      /\ pc' = [pc EXCEPT ![g] = "exit"] /\ item' = [item EXCEPT ![g] = 0]
  BY DEF ProcessFails, Exit
<1>2. UNCHANGED <<produced, closed, exited, panicked, passed, expired, cancelled, marked>>
  BY DEF ProcessFails, chanVars, ctxVars
<1>3. /\ pc' \in [Routine -> {"next", "recv", "process", "send", "exit"}]
      /\ item' \in [Routine -> 0 .. Items]
  BY <1>0, <1>1 DEF TypeOK
<1>4. TypeOK'
  BY <1>0, <1>1, <1>2, <1>3, EmittedIsKept DEF TypeOK
<1>5. /\ ~Held(g)'
      /\ \A f \in Routine \ {g} : (Held(f)' => Held(f)) /\ item'[f] = item[f]
      /\ \A f \in Routine : Exited(f) => Exited(f)'
  BY <1>0, <1>1 DEF Held, Exited, TypeOK
<1>6. pc'[Source] \in {"next", "send", "exit"}
  BY <1>0, <1>1, <1>3 DEF Taken, TypeOK
<1>7. Taken' /\ MarkedIsFinal'
  BY <1>0, <1>2, <1>5, <1>6, FewerAreHeld
<1>8. CancelledLate'
  BY <1>0, <1>1, <1>2, <1>5, EmittedIsKept DEF CancelledLate, AllReturned, Exited
<1> QED BY <1>0, <1>1, <1>4, <1>7, <1>8, EmittedIsKept DEF PipelineInv

-----------------------------------------------------------------------------
(* A channel is closed behind the last of its senders; the sink's close of *)
(* stageCh[0] comes when all groups have exited.                           *)
LEMMA CloseOutputKeeps ==
  ASSUME NEW i \in Group, PipelineInv, CloseOutput(i)
  PROVE  PipelineInv'
<1> USE Routines
<1>0. TypeOK /\ Taken /\ MarkedIsFinal /\ FirstErrorKept /\ CancelledLate
  BY DEF PipelineInv
<1>1. AllReturned(i) /\ i \notin exited
  BY DEF CloseOutput
<1>2. UNCHANGED <<pc, item, produced, passed, expired, cancelled, errCh, caller, collected, emitted, marked>>
  BY DEF CloseOutput, ctxVars, errVars
<1>3. Taken' /\ MarkedIsFinal' /\ FirstErrorKept'
  BY <1>0, <1>2 DEF Taken, MarkedIsFinal, FirstErrorKept, Held
<1>4. /\ Smooth' => Smooth
      /\ AllKept => AllKept'
      /\ \A g \in Routine : Exited(g)' <=> Exited(g)
  BY <1>2 DEF Smooth, AllKept, OnItsWay, Held, Exited
<1>5. CASE closed[CloseChan(i)]
  <2>1. panicked' = TRUE /\ UNCHANGED <<closed, exited>>
    BY <1>5 DEF CloseOutput
  <2>2. TypeOK'
    <3>1. {expired, cancelled, panicked}' \subseteq BOOLEAN
      BY <1>0, <1>2, <2>1, Zenon DEF TypeOK
    <3> QED BY <1>0, <1>2, <2>1, <3>1 DEF TypeOK
  <2>3. CancelledLate' /\ (ExitInOrder => ExitInOrder')
    BY <1>0, <1>2, <1>4, <2>1 DEF CancelledLate, AllReturned, ExitInOrder
  <2> QED BY <1>3, <1>4, <2>2, <2>3 DEF PipelineInv
<1>6. CASE ~closed[CloseChan(i)]
  <2>1. /\ closed' = [closed EXCEPT ![CloseChan(i)] = TRUE]
        /\ exited' = exited \cup {i} /\ panicked' = panicked
    BY <1>6 DEF CloseOutput
  <2>2. TypeOK'
    <3>1. closed' \in [Chan -> BOOLEAN] /\ exited' \subseteq Group
      BY <1>0, <2>1 DEF TypeOK
    <3> QED BY <1>0, <1>2, <2>1, <3>1 DEF TypeOK
  <2>3. CancelledLate'
    BY <1>0, <1>1, <1>2, <2>1 DEF CancelledLate, AllReturned
  <2>4. ExitInOrder => ExitInOrder'
    <3> SUFFICES ASSUME ExitInOrder, NEW c \in Chan, closed'[c], NEW h \in Routine, GroupOf(h) <= c
                 PROVE  Exited(h)
      BY <1>4 DEF ExitInOrder
    <3>1. CASE c # CloseChan(i)
      BY <3>1, <1>0, <2>1 DEF ExitInOrder, TypeOK
    <3>2. CASE c = CloseChan(i)
      <4>1. GroupOf(h) <= i
        BY <3>2 DEF CloseChan, Group, Chan
      <4>2. Exited(<<i, 1>>)
        BY <1>1 DEF AllReturned, Exited
      <4>3. CASE GroupOf(h) = i
        BY <4>3, <1>1 DEF AllReturned, Exited
      <4>4. CASE GroupOf(h) < i
        BY <4>4, <4>2 DEF ExitInOrder
      <4> QED BY <4>1, <4>3, <4>4 DEF Group
    <3> QED BY <3>1, <3>2
  <2> QED BY <1>3, <1>4, <2>2, <2>3, <2>4 DEF PipelineInv
<1> QED BY <1>5, <1>6

LEMMA CollectKeeps == PipelineInv /\ Collect => PipelineInv'
<1> SUFFICES ASSUME PipelineInv, Collect
             PROVE  PipelineInv'
  OBVIOUS
<1>0. TypeOK /\ Taken /\ MarkedIsFinal /\ FirstErrorKept /\ CancelledLate
  BY DEF PipelineInv
<1>1. UNCHANGED <<pc, item, produced, closed, exited, panicked, passed, expired, emitted, marked>>
      /\ cancelled' = TRUE
  BY DEF Collect, chanVars
<1>2. Taken' /\ MarkedIsFinal'
  BY <1>0, <1>1 DEF Taken, MarkedIsFinal, Held
<1>3. (Smooth' => Smooth) /\ (ExitInOrder => ExitInOrder') /\ (AllKept => AllKept')
  BY <1>1 DEF Smooth, ExitInOrder, AllKept, Exited, OnItsWay, Held
<1>4. {expired, cancelled, panicked}' \subseteq BOOLEAN
  BY <1>0, <1>1, Zenon DEF TypeOK
<1>5. CASE errCh # << >>
  <2>1. /\ errCh' = Tail(errCh) /\ collected' = collected + 1 /\ caller' = caller
        /\ errCh \in Seq({"err"}) /\ collected \in Nat
    BY <1>0, <1>5 DEF Collect, TypeOK
  <2>2. errCh' \in Seq({"err"}) /\ collected' \in Nat
        /\ Len(errCh') + collected' = Len(errCh) + collected
    BY <1>5, <2>1
  <2>3. TypeOK'
    BY <1>0, <1>1, <1>4, <2>1, <2>2 DEF TypeOK
  <2>4. FirstErrorKept'
    BY <1>0, <1>1, <2>2 DEF FirstErrorKept
  <2>5. CancelledLate'
    BY <1>0, <1>1, <1>5 DEF CancelledLate, AllReturned
  <2> QED BY <1>2, <1>3, <2>3, <2>4, <2>5 DEF PipelineInv
<1>6. CASE errCh = << >>
  <2>1. caller' = "returned" /\ UNCHANGED <<errCh, collected>> /\ exited = Group
    BY <1>6 DEF Collect, ErrChClosed
  <2>2. TypeOK'
    BY <1>0, <1>1, <1>4, <2>1 DEF TypeOK
  <2>3. FirstErrorKept' /\ CancelledLate'
    BY <1>0, <1>1, <2>1 DEF FirstErrorKept, CancelledLate, AllReturned
  <2> QED BY <1>2, <1>3, <2>2, <2>3 DEF PipelineInv
<1> QED BY <1>5, <1>6

LEMMA ExpireKeeps == PipelineInv /\ Expire => PipelineInv'
<1> SUFFICES ASSUME PipelineInv, Expire
             PROVE  PipelineInv'
  OBVIOUS
<1>0. TypeOK /\ Taken /\ MarkedIsFinal /\ FirstErrorKept /\ CancelledLate
  BY DEF PipelineInv
<1>1. UNCHANGED <<pc, item, produced, closed, exited, panicked, passed, cancelled, errCh, caller, collected, emitted, marked>>
      /\ expired' = TRUE
  BY DEF Expire, chanVars, errVars
<1>2. {expired, cancelled, panicked}' \subseteq BOOLEAN
  BY <1>0, <1>1, Zenon DEF TypeOK
<1>3. TypeOK'
  BY <1>0, <1>1, <1>2 DEF TypeOK
<1>4. Taken' /\ MarkedIsFinal' /\ FirstErrorKept' /\ CancelledLate' /\ ~Smooth'
  BY <1>0, <1>1 DEF Taken, MarkedIsFinal, Held, FirstErrorKept, CancelledLate, AllReturned, Smooth
<1> QED BY <1>3, <1>4 DEF PipelineInv

LEMMA UnchangedKeeps == PipelineInv /\ UNCHANGED vars => PipelineInv'
<1> SUFFICES ASSUME PipelineInv, UNCHANGED vars
             PROVE  PipelineInv'
  OBVIOUS
<1> USE DEF vars, chanVars, ctxVars, errVars
<1>0. TypeOK /\ Taken /\ MarkedIsFinal /\ FirstErrorKept /\ CancelledLate
  BY DEF PipelineInv
<1>1. TypeOK'
  BY <1>0 DEF TypeOK
<1>2. Taken' /\ MarkedIsFinal' /\ FirstErrorKept' /\ CancelledLate' /\ (Smooth' => Smooth)
  BY <1>0 DEF Taken, MarkedIsFinal, Held, FirstErrorKept, CancelledLate, AllReturned, Smooth
<1>3. (ExitInOrder => ExitInOrder') /\ (AllKept => AllKept')
  BY DEF ExitInOrder, AllKept, Exited, OnItsWay, Held
<1> QED BY <1>1, <1>2, <1>3 DEF PipelineInv

-----------------------------------------------------------------------------
(* The inductive invariant of a call of Process.                           *)
THEOREM PipelineInvariant == Spec => []PipelineInv
<1>1. PipelineInv /\ [Next]_vars => PipelineInv'
  <2> SUFFICES ASSUME PipelineInv, [Next]_vars
               PROVE  PipelineInv'
    OBVIOUS
  <2>1. CASE SourceNext
    BY <2>1, SourceNextKeeps
  <2>2. CASE SourceEnd
    BY <2>2, SourceEndKeeps
  <2>3. CASE Consume
    <3>1. Sink \in Routine /\ pc[Sink] = "process" /\ marked' = marked \cup {item[Sink]}
          /\ pc' = [pc EXCEPT ![Sink] = "recv"] /\ item' = [item EXCEPT ![Sink] = 0]
          /\ UNCHANGED <<produced, chanVars, ctxVars, errVars>>
      BY <2>3, Routines DEF Consume
    <3> QED BY <3>1, MarkedKeeps
  <2>4. ASSUME NEW g \in Routine,
               \/ SendOnClosed(g) \/ ReceiveClosed(g) \/ Quit(g)
               \/ Forward(g) \/ Discard(g) \/ ProcessFails(g)
               \/ \E h \in Routine : Pass(g, h)
        PROVE  PipelineInv'
    <3>1. CASE Discard(g)
      BY <3>1, MarkedKeeps DEF Discard, Continue, InputOf
    <3>2. CASE \E h \in Routine : Pass(g, h)
      BY <3>2, PassKeeps
    <3> QED BY <2>4, <3>1, <3>2, SendOnClosedKeeps, ReceiveClosedKeeps, QuitKeeps, ForwardKeeps,
               ProcessFailsKeeps
  <2>5. CASE \E i \in Group : CloseOutput(i)
    BY <2>5, CloseOutputKeeps
  <2>6. CASE Collect
    BY <2>6, CollectKeeps
  <2>7. CASE Expire
    BY <2>7, ExpireKeeps
  <2>8. CASE UNCHANGED vars
    BY <2>8, UnchangedKeeps
  <2> QED BY <2>1, <2>2, <2>3, <2>4, <2>5, <2>6, <2>7, <2>8 DEF Next, Work, Terminated
<1> QED BY <1>1, PipelineInitially, PTL DEF Spec

(* Type correctness.                                                       *)
THEOREM PipelineTypeCorrect == Spec => []TypeOK
<1>1. PipelineInv => TypeOK
  BY DEF PipelineInv
<1> QED BY <1>1, PipelineInvariant, PTL

(* No goroutine has a payload that was marked as processed (and may serve  *)
(* for another link by now), and two never have the same one.              *)
THEOREM MarkedPayloadsAreGone == Spec => []MarkedIsFinal
<1>1. PipelineInv => MarkedIsFinal
  BY DEF PipelineInv
<1> QED BY <1>1, PipelineInvariant, PTL

(* The first error is kept for the caller, who is not yet receiving or is  *)
(* busy with another.                                                      *)
THEOREM FirstErrorIsKept == Spec => []FirstErrorKept
<1>1. PipelineInv => FirstErrorKept
  BY DEF PipelineInv
<1> QED BY <1>1, PipelineInvariant, PTL

(* The sink's input is closed behind every payload of the source, unless   *)
(* an error or the context ended the pipeline.                             *)
THEOREM NoPayloadIsLost == Spec => []NothingLost
<1>1. PipelineInv => NothingLost
  <2> SUFFICES ASSUME PipelineInv, closed[N], Smooth, NEW x \in 1 .. produced
               PROVE  x \in marked \cup ToSet(passed[N])
    BY DEF NothingLost, Smooth
  <2>1. ExitInOrder /\ AllKept
    BY DEF PipelineInv
  <2>2. \A g \in Routine : GroupOf(g) <= N => Exited(g)
    BY <2>1 DEF ExitInOrder, Chan
  <2>3. ~OnItsWay(x)
    BY <2>2 DEF OnItsWay, Exited, Held
  <2> QED BY <2>1, <2>3 DEF AllKept
<1> QED BY <1>1, PipelineInvariant, PTL

-----------------------------------------------------------------------------
(* The order of payloads.                                                  *)

(* A payload goes through each channel once, through one after the other.  *)
(* Who holds it has it from the channel before its group.                  *)
PassedOnce ==
  \A c \in Chan : IsInjective(passed[c]) /\ ToSet(passed[c]) \subseteq 1 .. produced
PassedDown ==
  \A i \in 1 .. N : ToSet(passed[i]) \subseteq ToSet(passed[i - 1])
HeldBetween ==
  \A g \in Routine, c \in Chan : Held(g) =>
    /\ c >= GroupOf(g) => item[g] \notin ToSet(passed[c])
    /\ c = GroupOf(g) - 1 => item[g] \in ToSet(passed[c])

(* The only worker of a stage holds what came after all that it sent.      *)
SentInOrder(i) ==
  \A j, k \in DOMAIN passed[i] : j < k => Before(passed[i - 1], passed[i][j], passed[i][k])
HeldIsLater(i) ==
  \A g \in Routine : Held(g) /\ GroupOf(g) = i =>
    \A x \in ToSet(passed[i]) : Before(passed[i - 1], x, item[g])
OneAtATime == \A i \in 1 .. N : Size(i) = 1 => SentInOrder(i) /\ HeldIsLater(i)

OrderInv == PassedOnce /\ PassedDown /\ HeldBetween /\ OneAtATime

LEMMA Appended ==
  ASSUME NEW S, NEW s \in Seq(S), NEW x \in S, x \notin ToSet(s)
  PROVE  /\ DOMAIN Append(s, x) = 1 .. Len(s) + 1 /\ DOMAIN s = 1 .. Len(s) /\ Len(s) \in Nat
         /\ \A k \in 1 .. Len(s) : Append(s, x)[k] = s[k] /\ s[k] \in ToSet(s)
         /\ Append(s, x)[Len(s) + 1] = x
         /\ ToSet(Append(s, x)) = ToSet(s) \cup {x}
         /\ IsInjective(s) => IsInjective(Append(s, x))
         /\ \A a, b : Before(s, a, b) => Before(Append(s, x), a, b)
         /\ \A a \in ToSet(s) : Before(Append(s, x), a, x)
<1> DEFINE t == Append(s, x)
<1>1. /\ DOMAIN t = 1 .. Len(s) + 1 /\ DOMAIN s = 1 .. Len(s) /\ Len(s) \in Nat
      /\ \A k \in 1 .. Len(s) : t[k] = s[k]
      /\ t[Len(s) + 1] = x
  OBVIOUS
<1> HIDE DEF t
<1>2. \A k \in 1 .. Len(s) : s[k] \in ToSet(s)
  BY <1>1 DEF ToSet
<1>3. ToSet(t) = ToSet(s) \cup {x}
  <2>1. \A k \in 1 .. Len(s) + 1 : k \in 1 .. Len(s) \/ k = Len(s) + 1
    BY <1>1
  <2>2. \A y \in ToSet(t) : y \in ToSet(s) \cup {x}
    BY <1>1, <1>2, <2>1 DEF ToSet
  <2>3. \A y \in ToSet(s) : y \in ToSet(t)
    BY <1>1 DEF ToSet
  <2>4. x \in ToSet(t)
    BY <1>1 DEF ToSet
  <2> QED BY <2>2, <2>3, <2>4
<1>4. IsInjective(s) => IsInjective(t)
  BY <1>1, <1>2 DEF IsInjective
<1>5. \A a, b : Before(s, a, b) => Before(t, a, b)
  BY <1>1 DEF Before
<1>6. \A a \in ToSet(s) : Before(t, a, x)
  BY <1>1 DEF Before, ToSet
<1> QED BY <1>1, <1>2, <1>3, <1>4, <1>5, <1>6 DEF t

LEMMA Alone ==
  ASSUME NEW g \in Routine, NEW h \in Routine, GroupOf(g) = GroupOf(h), Size(GroupOf(g)) = 1
  PROVE  g = h
<1>1. PICK i \in Group : \E k \in 1 .. Size(i) : g = <<i, k>>
  BY DEF Routine
<1>2. PICK j \in Group : \E l \in 1 .. Size(j) : h = <<j, l>>
  BY DEF Routine
<1>3. GroupOf(g) = i /\ GroupOf(h) = j
  BY <1>1, <1>2 DEF GroupOf
<1>4. i = j /\ Size(i) = 1 /\ Size(j) = 1
  BY <1>3
<1>5. \A k \in 1 .. 1 : k = 1
  OBVIOUS
<1> QED BY <1>1, <1>2, <1>4, <1>5

(* Nothing passes.                                                         *)
LEMMA OrderStays ==
  ASSUME OrderInv, passed' = passed, 1 .. produced \subseteq 1 .. produced',
         \A g \in Routine : Held(g)' => Held(g) /\ item'[g] = item[g]
  PROVE  OrderInv'
<1>1. PassedOnce' /\ PassedDown'
  BY DEF OrderInv, PassedOnce, PassedDown
<1>2. HeldBetween'
  BY DEF OrderInv, HeldBetween
<1>3. OneAtATime'
  BY DEF OrderInv, OneAtATime, SentInOrder, HeldIsLater
<1> QED BY <1>1, <1>2, <1>3 DEF OrderInv

(* What the source takes is new.                                           *)
LEMMA OrderOfSource ==
  ASSUME PipelineInv, OrderInv, SourceNext
  PROVE  OrderInv'
<1> USE Routines
<1>1. /\ produced \in Nat /\ produced' = produced + 1 /\ passed' = passed
      /\ item' = [item EXCEPT ![Source] = produced'] /\ pc' = [pc EXCEPT ![Source] = "send"]
  BY DEF PipelineInv, SourceNext, TypeOK, chanVars
<1>2. /\ item'[Source] = produced + 1
      /\ \A g \in Routine \ {Source} : (Held(g)' <=> Held(g)) /\ item'[g] = item[g]
  BY <1>1 DEF PipelineInv, TypeOK, Held
<1>3. PassedOnce' /\ PassedDown'
  <2>1. 1 .. produced \subseteq 1 .. produced'
    BY <1>1
  <2> QED BY <1>1, <2>1 DEF OrderInv, PassedOnce, PassedDown
<1>4. HeldBetween'
  <2> SUFFICES ASSUME NEW g \in Routine, NEW c \in Chan, Held(g)'
               PROVE  /\ c >= GroupOf(g) => item'[g] \notin ToSet(passed[c])
                      /\ c = GroupOf(g) - 1 => item'[g] \in ToSet(passed[c])
    BY <1>1 DEF HeldBetween
  <2>1. CASE g = Source
    <3>1. item'[g] \notin ToSet(passed[c])
      <4>1. produced + 1 \notin 1 .. produced
        BY <1>1
      <4> QED BY <1>2, <2>1, <4>1 DEF OrderInv, PassedOnce
    <3>2. c # GroupOf(g) - 1
      BY <2>1 DEF Chan
    <3> QED BY <3>1, <3>2
  <2>2. CASE g # Source
    BY <1>2, <2>2 DEF OrderInv, HeldBetween
  <2> QED BY <2>1, <2>2
<1>5. OneAtATime'
  <2> SUFFICES ASSUME NEW i \in 1 .. N, Size(i) = 1
               PROVE  SentInOrder(i)' /\ HeldIsLater(i)'
    BY DEF OneAtATime
  <2>1. SentInOrder(i) /\ HeldIsLater(i)
    BY DEF OrderInv, OneAtATime
  <2>2. \A g \in Routine : GroupOf(g) = i => g # Source
    OBVIOUS
  <2> QED BY <1>1, <1>2, <2>1, <2>2 DEF SentInOrder, HeldIsLater
<1> QED BY <1>3, <1>4, <1>5 DEF OrderInv

(* What passes is new to the channel, and comes after all that went        *)
(* through the channel when a single worker sends it.                      *)
LEMMA OrderOfPass ==
  ASSUME NEW g \in Routine, NEW h \in Routine, PipelineInv, OrderInv, Pass(g, h)
  PROVE  OrderInv'
<1> USE Routines
<1> DEFINE s == GroupOf(g)
           x == item[g]
<1>1. /\ GroupOf(h) = s + 1 /\ pc[g] = "send" /\ pc[h] = "recv" /\ g # h
      /\ item' = [item EXCEPT ![h] = x, ![g] = 0]
      /\ pc' = [pc EXCEPT ![h] = "process", ![g] = IF g = Source THEN "next" ELSE "recv"]
      /\ passed' = [passed EXCEPT ![s] = Append(@, x)] /\ produced' = produced
  BY DEF Pass, Hand
<1>2. s \in Chan /\ s \in Nat /\ passed[s] \in Seq(1 .. Items) /\ passed \in [Chan -> Seq(1 .. Items)]
  BY <1>1 DEF Group, Chan, PipelineInv, TypeOK
<1>3. x \in 1 .. produced /\ x \in 1 .. Items
  BY <1>1 DEF PipelineInv, Taken, Held, TypeOK
<1>4. /\ ~Held(g)' /\ Held(g) /\ Held(h)' /\ item'[h] = x
      /\ \A f \in Routine \ {g, h} : (Held(f)' <=> Held(f)) /\ item'[f] = item[f]
      /\ \A f \in Routine \ {g} : Held(f) => item[f] # x
  BY <1>1 DEF Held, PipelineInv, TypeOK, MarkedIsFinal
<1>5. /\ \A c \in Chan : c >= s => x \notin ToSet(passed[c])
      /\ \A c \in Chan : c = s - 1 => x \in ToSet(passed[c])
  BY <1>4 DEF OrderInv, HeldBetween
<1>6. /\ passed'[s] = Append(passed[s], x)
      /\ \A c \in Chan \ {s} : passed'[c] = passed[c]
  BY <1>1, <1>2
<1> HIDE DEF s, x
<1>7. x \notin ToSet(passed[s])
  BY <1>2, <1>5
<1>8. /\ DOMAIN passed'[s] = 1 .. Len(passed[s]) + 1 /\ DOMAIN passed[s] = 1 .. Len(passed[s])
      /\ Len(passed[s]) \in Nat
      /\ \A k \in 1 .. Len(passed[s]) : passed'[s][k] = passed[s][k] /\ passed[s][k] \in ToSet(passed[s])
      /\ passed'[s][Len(passed[s]) + 1] = x
      /\ ToSet(passed'[s]) = ToSet(passed[s]) \cup {x}
      /\ IsInjective(passed[s]) => IsInjective(passed'[s])
      /\ \A a, b : Before(passed[s], a, b) => Before(passed'[s], a, b)
      /\ \A a \in ToSet(passed[s]) : Before(passed'[s], a, x)
  BY <1>2, <1>3, <1>6, <1>7, Appended
<1>9. PassedOnce'
  <2> SUFFICES ASSUME NEW c \in Chan
               PROVE  IsInjective(passed'[c]) /\ ToSet(passed'[c]) \subseteq 1 .. produced
    BY <1>1 DEF PassedOnce
  <2>1. IsInjective(passed[c]) /\ ToSet(passed[c]) \subseteq 1 .. produced
    BY DEF OrderInv, PassedOnce
  <2> QED BY <1>3, <1>6, <1>8, <2>1
<1>10. PassedDown'
  <2> SUFFICES ASSUME NEW i \in 1 .. N
               PROVE  ToSet(passed'[i]) \subseteq ToSet(passed'[i - 1])
    BY DEF PassedDown
  <2>1. i \in Chan /\ i - 1 \in Chan /\ ToSet(passed[i]) \subseteq ToSet(passed[i - 1])
    BY DEF Chan, OrderInv, PassedDown
  <2>2. CASE i = s
    <3>1. x \in ToSet(passed[i - 1]) /\ i - 1 # s
      BY <1>2, <1>5, <2>1, <2>2
    <3> QED BY <1>6, <1>8, <2>1, <2>2, <3>1
  <2>3. CASE i # s
    BY <1>6, <1>8, <2>1, <2>3
  <2> QED BY <2>2, <2>3
<1>11. HeldBetween'
  <2> SUFFICES ASSUME NEW f \in Routine, NEW c \in Chan, Held(f)'
               PROVE  /\ c >= GroupOf(f) => item'[f] \notin ToSet(passed'[c])
                      /\ c = GroupOf(f) - 1 => item'[f] \in ToSet(passed'[c])
    BY DEF HeldBetween
  <2>1. CASE f = h
    <3>1. c >= GroupOf(f) => c # s /\ c >= s
      BY <1>1, <1>2, <2>1 DEF Chan
    <3>2. c = GroupOf(f) - 1 => c = s
      BY <1>1, <1>2, <2>1
    <3> QED BY <1>4, <1>5, <1>6, <1>8, <2>1, <3>1, <3>2
  <2>2. CASE f # h
    <3>1. Held(f) /\ item'[f] = item[f] /\ item[f] # x
      BY <1>4, <2>2
    <3>2. /\ c >= GroupOf(f) => item[f] \notin ToSet(passed[c])
          /\ c = GroupOf(f) - 1 => item[f] \in ToSet(passed[c])
      BY <3>1 DEF OrderInv, HeldBetween
    <3> QED BY <1>6, <1>8, <3>1, <3>2
  <2> QED BY <2>1, <2>2
<1>12. OneAtATime'
  <2> SUFFICES ASSUME NEW i \in 1 .. N, Size(i) = 1
               PROVE  SentInOrder(i)' /\ HeldIsLater(i)'
    BY DEF OneAtATime
  <2>1. i \in Chan /\ i - 1 \in Chan /\ i \in Nat /\ SentInOrder(i) /\ HeldIsLater(i)
    BY DEF Chan, OrderInv, OneAtATime
  <2>2. CASE i = s
    <3>1. passed'[i - 1] = passed[i - 1]
      BY <1>6, <2>1, <2>2
    <3>2. \A a \in ToSet(passed[i]) : Before(passed[i - 1], a, x)
      BY <1>4, <2>1, <2>2 DEF HeldIsLater, s, x
    <3>3. SentInOrder(i)'
      <4> SUFFICES ASSUME NEW j \in 1 .. Len(passed[s]) + 1, NEW k \in 1 .. Len(passed[s]) + 1, j < k
                   PROVE  Before(passed[i - 1], passed'[s][j], passed'[s][k])
        BY <1>8, <2>2, <3>1 DEF SentInOrder
      <4>1. j \in 1 .. Len(passed[s]) /\ passed'[s][j] = passed[s][j] /\ passed[s][j] \in ToSet(passed[s])
        BY <1>8
      <4>2. CASE k \in 1 .. Len(passed[s])
        BY <1>8, <2>1, <2>2, <4>1, <4>2 DEF SentInOrder
      <4>3. CASE k = Len(passed[s]) + 1
        BY <1>8, <2>2, <3>2, <4>1, <4>3
      <4> QED BY <1>8, <4>2, <4>3
    <3>4. HeldIsLater(i)'
      <4>1. \A f \in Routine : GroupOf(f) = i => f = g
        BY <2>2, Alone DEF s
      <4> QED BY <1>4, <4>1 DEF HeldIsLater
    <3> QED BY <3>3, <3>4
  <2>3. CASE i # s
    <3>1. passed'[i] = passed[i]
      BY <1>6, <2>1, <2>3
    <3>2. \A a, b : Before(passed[i - 1], a, b) => Before(passed'[i - 1], a, b)
      BY <1>6, <1>8, <2>1
    <3>3. SentInOrder(i)'
      BY <2>1, <3>1, <3>2 DEF SentInOrder
    <3>4. HeldIsLater(i)'
      <4> SUFFICES ASSUME NEW f \in Routine, Held(f)', GroupOf(f) = i, NEW y \in ToSet(passed[i])
                   PROVE  Before(passed'[i - 1], y, item'[f])
        BY <3>1 DEF HeldIsLater
      <4>1. CASE f = h
        <5>1. i - 1 = s
          BY <1>1, <1>2, <4>1
        <5>2. y \in ToSet(passed[s])
          BY <5>1 DEF OrderInv, PassedDown
        <5> QED BY <1>4, <1>8, <4>1, <5>1, <5>2
      <4>2. CASE f # h
        <5>1. Held(f) /\ item'[f] = item[f]
          BY <1>4, <4>2
        <5> QED BY <2>1, <3>2, <5>1 DEF HeldIsLater
      <4> QED BY <4>1, <4>2
    <3> QED BY <3>3, <3>4
  <2> QED BY <2>2, <2>3
<1> QED BY <1>9, <1>10, <1>11, <1>12 DEF OrderInv

LEMMA OthersPassNothing ==
  ASSUME PipelineInv,
         \/ SourceEnd \/ Consume \/ Collect \/ Expire \/ UNCHANGED vars
         \/ \E i \in Group : CloseOutput(i)
         \/ \E g \in Routine : \/ SendOnClosed(g) \/ ReceiveClosed(g) \/ Quit(g)
                               \/ Forward(g) \/ Discard(g) \/ ProcessFails(g)
  PROVE  /\ passed' = passed /\ produced' = produced
         /\ \A g \in Routine : Held(g)' => Held(g) /\ item'[g] = item[g]
<1>0. pc \in [Routine -> {"next", "recv", "process", "send", "exit"}]
      /\ item \in [Routine -> 0 .. Items] /\ Source \in Routine /\ Sink \in Routine
  BY Routines DEF PipelineInv, TypeOK
<1>1. CASE SourceEnd \/ Consume
  BY <1>0, <1>1 DEF SourceEnd, Consume, chanVars, Held
<1>2. CASE Collect \/ Expire \/ UNCHANGED vars \/ \E i \in Group : CloseOutput(i)
  BY <1>2 DEF Collect, Expire, CloseOutput, vars, chanVars, Held
<1>3. ASSUME NEW g \in Routine, SendOnClosed(g) \/ ReceiveClosed(g) \/ Quit(g)
      PROVE  /\ passed' = passed /\ produced' = produced
             /\ \A h \in Routine : Held(h)' => Held(h) /\ item'[h] = item[h]
  BY <1>0, <1>3 DEF SendOnClosed, ReceiveClosed, Quit, Exit, chanVars, Held
<1>4. ASSUME NEW g \in Routine, Forward(g) \/ Discard(g) \/ ProcessFails(g)
      PROVE  /\ passed' = passed /\ produced' = produced
             /\ \A h \in Routine : Held(h)' => Held(h) /\ item'[h] = item[h]
  BY <1>0, <1>4 DEF Forward, Discard, Continue, ProcessFails, Exit, chanVars, Held
<1> QED BY <1>1, <1>2, <1>3, <1>4

LEMMA OrderInitially == Init => OrderInv
<1> SUFFICES ASSUME Init
             PROVE  OrderInv
  OBVIOUS
<1>1. \A c \in Chan : ToSet(passed[c]) = {} /\ DOMAIN passed[c] = {} /\ IsInjective(passed[c])
  BY DEF Init, ToSet, IsInjective
<1>2. \A g \in Routine : ~Held(g)
  BY DEF Init, Held
<1>3. PassedOnce /\ HeldBetween
  BY <1>1, <1>2 DEF PassedOnce, HeldBetween
<1>4. \A i \in 1 .. N : i \in Chan
  BY DEF Chan
<1>5. PassedDown /\ OneAtATime
  BY <1>1, <1>2, <1>4 DEF PassedDown, OneAtATime, SentInOrder, HeldIsLater
<1> QED BY <1>3, <1>5 DEF OrderInv

LEMMA StepCases ==
  ASSUME [Next]_vars
  PROVE  \/ SourceNext
         \/ \E g, h \in Routine : Pass(g, h)
         \/ SourceEnd \/ Consume \/ Collect \/ Expire \/ UNCHANGED vars
         \/ \E i \in Group : CloseOutput(i)
         \/ \E g \in Routine : \/ SendOnClosed(g) \/ ReceiveClosed(g) \/ Quit(g)
                               \/ Forward(g) \/ Discard(g) \/ ProcessFails(g)
  BY DEF Next, Work, Terminated

THEOREM OrderInvariant == Spec => []OrderInv
<1>1. PipelineInv /\ OrderInv /\ [Next]_vars => OrderInv'
  <2> SUFFICES ASSUME PipelineInv, OrderInv, [Next]_vars
               PROVE  OrderInv'
    OBVIOUS
  <2>1. ASSUME passed' = passed, produced' = produced,
               \A g \in Routine : Held(g)' => Held(g) /\ item'[g] = item[g]
        PROVE  OrderInv'
    BY <2>1, OrderStays
  <2> QED BY <2>1, StepCases, OrderOfSource, OrderOfPass, OthersPassNothing
<1> QED BY <1>1, OrderInitially, PipelineInvariant, PTL DEF Spec

(* A FIFO keeps the order (fifo.go: one worker that sends one payload      *)
(* before it receives the next), and no stage repeats a payload or makes   *)
(* one up, whatever the size of its pool.                                  *)
THEOREM StagesAreFIFO == Spec => []StagesKeepOrder
<1>1. OrderInv => StagesKeepOrder
  <2> SUFFICES ASSUME OrderInv
               PROVE  StagesKeepOrder
    OBVIOUS
  <2>1. \A i \in 1 .. N : PoolSize[i] = 1 => SentInOrder(i)
    BY DEF OrderInv, OneAtATime, Size
  <2> QED BY <2>1 DEF OrderInv, PassedOnce, PassedDown, SentInOrder, StagesKeepOrder
<1> QED BY <1>1, OrderInvariant, PTL

-----------------------------------------------------------------------------
(* From the source on, over FIFOs only.                                    *)
OneByOne(c) == \A i \in 1 .. c : Size(i) = 1
Rising(c) == \A j, k \in DOMAIN passed[c] : j < k => passed[c][j] < passed[c][k]
InSourceOrder == \A c \in Chan : OneByOne(c) => Rising(c)

(* Who is further down holds an older payload.                             *)
HeldIsLatest(c) ==
  \A g \in Routine : Held(g) /\ GroupOf(g) <= c => \A x \in ToSet(passed[c]) : x < item[g]
Behind ==
  \A g, h \in Routine :
    Held(g) /\ Held(h) /\ GroupOf(g) < GroupOf(h) /\ OneByOne(GroupOf(h)) => item[h] < item[g]
SourceOrderInv ==
  /\ InSourceOrder
  /\ \A c \in Chan : OneByOne(c) => HeldIsLatest(c)
  /\ Behind

LEMMA FIFOIsAlone ==
  ASSUME NEW g \in Routine, NEW h \in Routine, GroupOf(g) = GroupOf(h), OneByOne(GroupOf(g))
  PROVE  g = h
<1>1. GroupOf(g) \in Group
  BY Routines
<1>2. Size(GroupOf(g)) = 1
  BY <1>1 DEF OneByOne, Size, Group
<1> QED BY <1>2, Alone

LEMMA SourceOrderStays ==
  ASSUME SourceOrderInv, passed' = passed,
         \A g \in Routine : Held(g)' => Held(g) /\ item'[g] = item[g]
  PROVE  SourceOrderInv'
<1>1. InSourceOrder' /\ \A c \in Chan : OneByOne(c) => HeldIsLatest(c)'
  BY DEF SourceOrderInv, InSourceOrder, Rising, HeldIsLatest
<1>2. Behind'
  BY DEF SourceOrderInv, Behind
<1> QED BY <1>1, <1>2 DEF SourceOrderInv, OneByOne

LEMMA SourceOrderOfSource ==
  ASSUME PipelineInv, OrderInv, SourceOrderInv, SourceNext
  PROVE  SourceOrderInv'
<1> USE Routines
<1>1. /\ produced \in Nat /\ produced' = produced + 1 /\ passed' = passed
      /\ item' = [item EXCEPT ![Source] = produced'] /\ pc' = [pc EXCEPT ![Source] = "send"]
  BY DEF PipelineInv, SourceNext, TypeOK, chanVars
<1>2. /\ item'[Source] = produced + 1
      /\ \A g \in Routine \ {Source} : (Held(g)' <=> Held(g)) /\ item'[g] = item[g]
  BY <1>1 DEF PipelineInv, TypeOK, Held
<1>3. \A x \in 1 .. produced : x < produced + 1
  BY <1>1
<1>4. InSourceOrder'
  BY <1>1 DEF SourceOrderInv, InSourceOrder, Rising, OneByOne
<1>5. ASSUME NEW c \in Chan, OneByOne(c)
      PROVE  HeldIsLatest(c)'
  <2>1. ToSet(passed[c]) \subseteq 1 .. produced
    BY DEF OrderInv, PassedOnce
  <2>2. HeldIsLatest(c)
    BY <1>5 DEF SourceOrderInv
  <2> SUFFICES ASSUME NEW g \in Routine, Held(g)', GroupOf(g) <= c, NEW x \in ToSet(passed[c])
               PROVE  x < item'[g]
    BY <1>1 DEF HeldIsLatest
  <2>3. CASE g = Source
    BY <1>2, <1>3, <2>1, <2>3
  <2>4. CASE g # Source
    BY <1>2, <2>2, <2>4 DEF HeldIsLatest
  <2> QED BY <2>3, <2>4
<1>6. Behind'
  <2> SUFFICES ASSUME NEW g \in Routine, NEW h \in Routine, Held(g)', Held(h)',
                      GroupOf(g) < GroupOf(h), OneByOne(GroupOf(h))
               PROVE  item'[h] < item'[g]
    BY DEF Behind, OneByOne
  <2>1. h # Source
    BY DEF Group
  <2>2. Held(h) /\ item'[h] = item[h] /\ item[h] \in 1 .. produced
    BY <1>2, <2>1 DEF PipelineInv, Taken
  <2>3. CASE g = Source
    BY <1>2, <1>3, <2>2, <2>3
  <2>4. CASE g # Source
    BY <1>2, <2>2, <2>4 DEF SourceOrderInv, Behind
  <2> QED BY <2>3, <2>4
<1> QED BY <1>4, <1>5, <1>6 DEF SourceOrderInv, OneByOne

LEMMA SourceOrderOfPass ==
  ASSUME NEW g \in Routine, NEW h \in Routine,
         PipelineInv, OrderInv, SourceOrderInv, Pass(g, h)
  PROVE  SourceOrderInv'
<1> USE Routines
<1> DEFINE s == GroupOf(g)
           x == item[g]
<1>1. /\ GroupOf(h) = s + 1 /\ pc[g] = "send" /\ pc[h] = "recv" /\ g # h
      /\ item' = [item EXCEPT ![h] = x, ![g] = 0]
      /\ pc' = [pc EXCEPT ![h] = "process", ![g] = IF g = Source THEN "next" ELSE "recv"]
      /\ passed' = [passed EXCEPT ![s] = Append(@, x)]
  BY DEF Pass, Hand
<1>2. s \in Chan /\ s \in Nat /\ passed[s] \in Seq(1 .. Items) /\ passed \in [Chan -> Seq(1 .. Items)]
  BY <1>1 DEF Group, Chan, PipelineInv, TypeOK
<1>3. x \in 1 .. Items /\ x \notin ToSet(passed[s])
  BY <1>1, <1>2 DEF PipelineInv, Taken, Held, TypeOK, OrderInv, HeldBetween
<1>4. /\ ~Held(g)' /\ Held(g) /\ item'[h] = x
      /\ \A f \in Routine \ {g, h} : (Held(f)' <=> Held(f)) /\ item'[f] = item[f]
  BY <1>1 DEF Held, PipelineInv, TypeOK
<1>5. /\ passed'[s] = Append(passed[s], x)
      /\ \A c \in Chan \ {s} : passed'[c] = passed[c]
  BY <1>1, <1>2
<1> HIDE DEF s, x
<1>6. /\ DOMAIN passed'[s] = 1 .. Len(passed[s]) + 1 /\ Len(passed[s]) \in Nat
      /\ DOMAIN passed[s] = 1 .. Len(passed[s])
      /\ \A k \in 1 .. Len(passed[s]) : passed'[s][k] = passed[s][k] /\ passed[s][k] \in ToSet(passed[s])
      /\ passed'[s][Len(passed[s]) + 1] = x
      /\ ToSet(passed'[s]) = ToSet(passed[s]) \cup {x}
  BY <1>2, <1>3, <1>5, Appended
<1>7. \A f \in Routine : GroupOf(f) \in Group /\ GroupOf(f) \in Nat
  BY DEF Group
<1>8. ASSUME NEW f \in Routine \ {g, h}, Held(f), GroupOf(f) <= s, OneByOne(s)
      PROVE  x < item[f]
  <2>1. GroupOf(f) # s
    BY <1>8, FIFOIsAlone DEF s
  <2>2. GroupOf(f) < s
    BY <1>2, <1>7, <1>8, <2>1
  <2> QED BY <1>4, <1>8, <2>2 DEF SourceOrderInv, Behind, s, x
<1>9. ASSUME NEW c \in Chan, OneByOne(c), c >= s
      PROVE  \A y \in ToSet(passed[c]) : y < x
  BY <1>4, <1>9 DEF SourceOrderInv, HeldIsLatest, s, x
<1>10. InSourceOrder'
  <2> SUFFICES ASSUME NEW c \in Chan, OneByOne(c)
               PROVE  Rising(c)'
    BY DEF InSourceOrder, OneByOne
  <2>1. Rising(c)
    BY DEF SourceOrderInv, InSourceOrder
  <2>2. CASE c = s
    <3> SUFFICES ASSUME NEW j \in 1 .. Len(passed[s]) + 1, NEW k \in 1 .. Len(passed[s]) + 1, j < k
                 PROVE  passed'[s][j] < passed'[s][k]
      BY <1>6, <2>2 DEF Rising
    <3>1. j \in 1 .. Len(passed[s]) /\ passed'[s][j] = passed[s][j] /\ passed[s][j] \in ToSet(passed[s])
      BY <1>6
    <3>2. CASE k \in 1 .. Len(passed[s])
      BY <1>6, <2>1, <2>2, <3>1, <3>2 DEF Rising
    <3>3. CASE k = Len(passed[s]) + 1
      <4>1. \A y \in ToSet(passed[s]) : y < x
        BY <1>2, <1>9, <2>2
      <4> QED BY <1>6, <3>1, <3>3, <4>1
    <3> QED BY <1>6, <3>2, <3>3
  <2>3. CASE c # s
    BY <1>5, <2>1, <2>3 DEF Rising
  <2> QED BY <2>2, <2>3
<1>11. ASSUME NEW c \in Chan, OneByOne(c)
       PROVE  HeldIsLatest(c)'
  <2>1. HeldIsLatest(c)
    BY <1>11 DEF SourceOrderInv
  <2> SUFFICES ASSUME NEW f \in Routine, Held(f)', GroupOf(f) <= c, NEW y \in ToSet(passed'[c])
               PROVE  y < item'[f]
    BY DEF HeldIsLatest
  <2>2. CASE f = h
    <3>1. c >= s /\ c # s
      BY <1>1, <1>2, <2>2 DEF Chan
    <3> QED BY <1>4, <1>5, <1>9, <1>11, <2>2, <3>1
  <2>3. CASE f # h
    <3>1. f \in Routine \ {g, h} /\ Held(f) /\ item'[f] = item[f]
      BY <1>4, <2>3
    <3>2. CASE c = s /\ y = x
      BY <1>8, <1>11, <3>1, <3>2
    <3>3. CASE ~(c = s /\ y = x)
      <4>1. y \in ToSet(passed[c])
        BY <1>5, <1>6, <3>3
      <4> QED BY <2>1, <3>1, <4>1 DEF HeldIsLatest
    <3> QED BY <3>2, <3>3
  <2> QED BY <2>2, <2>3
<1>12. Behind'
  <2> SUFFICES ASSUME NEW f \in Routine, NEW e \in Routine, Held(f)', Held(e)',
                      GroupOf(f) < GroupOf(e), OneByOne(GroupOf(e))
               PROVE  item'[e] < item'[f]
    BY DEF Behind, OneByOne
  <2>1. CASE e = h
    <3>1. f \in Routine \ {g, h} /\ Held(f) /\ item'[f] = item[f] /\ GroupOf(f) <= s /\ OneByOne(s)
      <4>1. f # h /\ f # g /\ GroupOf(f) < s + 1 /\ OneByOne(s + 1)
        BY <1>1, <1>2, <1>4, <2>1
      <4>2. OneByOne(s)
        BY <1>2, <4>1 DEF OneByOne
      <4>3. GroupOf(f) <= s
        BY <1>2, <1>7, <4>1
      <4> QED BY <1>4, <4>1, <4>2, <4>3
    <3> QED BY <1>4, <1>8, <2>1, <3>1
  <2>2. CASE f = h
    <3>1. e \in Routine \ {g, h} /\ Held(e) /\ item'[e] = item[e] /\ s < GroupOf(e)
      <4>1. e # h /\ e # g /\ s + 1 < GroupOf(e)
        BY <1>1, <1>2, <1>4, <2>2
      <4>2. s < GroupOf(e)
        BY <1>2, <1>7, <4>1
      <4> QED BY <1>4, <4>1, <4>2
    <3>2. item[e] < item[g]
      BY <1>4, <3>1 DEF SourceOrderInv, Behind, s
    <3> QED BY <1>4, <2>2, <3>1, <3>2 DEF x
  <2>3. CASE e # h /\ f # h
    <3>1. Held(e) /\ item'[e] = item[e] /\ Held(f) /\ item'[f] = item[f]
      BY <1>4, <2>3
    <3> QED BY <3>1 DEF SourceOrderInv, Behind
  <2> QED BY <2>1, <2>2, <2>3
<1> QED BY <1>10, <1>11, <1>12 DEF SourceOrderInv, OneByOne

(* Behind any number of FIFOs the payloads are in the order of the source: *)
(* what the FIFOs of a pipeline guarantee together (fifo.go, pipe.go).     *)
THEOREM FIFOsKeepSourceOrder == Spec => []InSourceOrder
<1>1. Init => SourceOrderInv
  <2> SUFFICES ASSUME Init
               PROVE  SourceOrderInv
    OBVIOUS
  <2>1. \A c \in Chan : ToSet(passed[c]) = {} /\ DOMAIN passed[c] = {}
    BY DEF Init, ToSet
  <2>2. \A g \in Routine : ~Held(g)
    BY DEF Init, Held
  <2> QED BY <2>1, <2>2 DEF SourceOrderInv, InSourceOrder, Rising, HeldIsLatest, Behind
<1>2. PipelineInv /\ OrderInv /\ SourceOrderInv /\ [Next]_vars => SourceOrderInv'
  BY StepCases, SourceOrderStays, SourceOrderOfSource, SourceOrderOfPass, OthersPassNothing
<1>3. SourceOrderInv => InSourceOrder
  BY DEF SourceOrderInv
<1> QED BY <1>1, <1>2, <1>3, PipelineInvariant, OrderInvariant, PTL DEF Spec

-----------------------------------------------------------------------------
(* Both source and sink close stageCh[0], and only one gets past that.     *)
OneCloses ==
  /\ {0, N + 1} \cap exited # {} => closed[0]
  /\ ~({0, N + 1} \subseteq exited)
  /\ caller = "collect"

LEMMA CloseOutputOnce ==
  ASSUME PipelineInv, OneCloses, NEW i \in Group, CloseOutput(i)
  PROVE  OneCloses'
<1>1. closed \in [Chan -> BOOLEAN] /\ 0 \in Chan /\ CloseChan(i) \in Chan /\ caller' = caller
  BY DEF PipelineInv, TypeOK, CloseOutput, CloseChan, Chan, Group, errVars
<1>2. CASE closed[CloseChan(i)]
  BY <1>2 DEF OneCloses, CloseOutput, errVars
<1>3. CASE ~closed[CloseChan(i)]
  <2>1. closed' = [closed EXCEPT ![CloseChan(i)] = TRUE] /\ exited' = exited \cup {i}
    BY <1>3 DEF CloseOutput
  <2>2. closed[0] => closed'[0]
    BY <1>1, <2>1
  <2>3. CASE i \in {0, N + 1}
    <3>1. CloseChan(i) = 0 /\ 0 # N + 1
      BY <2>3 DEF CloseChan
    <3>2. closed'[0] /\ {0, N + 1} \cap exited = {}
      BY <1>1, <1>3, <2>1, <3>1 DEF OneCloses
    <3> QED BY <1>1, <2>1, <3>1, <3>2 DEF OneCloses
  <2>4. CASE i \notin {0, N + 1}
    BY <1>1, <2>1, <2>2, <2>4 DEF OneCloses
  <2> QED BY <2>3, <2>4
<1> QED BY <1>2, <1>3

(* No call of Process returns, however many stages and workers it has:     *)
(* pipe.go closes stageCh[0] after the source and again after the sink.    *)
THEOREM NoCallReturns == Spec => [](caller # "returned")
<1>1. Init => OneCloses
  BY DEF Init, OneCloses
<1>2. PipelineInv /\ OneCloses /\ [Next]_vars => OneCloses'
  <2> SUFFICES ASSUME PipelineInv, OneCloses, [Next]_vars
               PROVE  OneCloses'
    OBVIOUS
  <2>1. ASSUME UNCHANGED <<closed, exited, caller>>
        PROVE  OneCloses'
    BY <2>1 DEF OneCloses
  <2>2. CASE SourceNext \/ SourceEnd \/ Consume \/ Expire \/ UNCHANGED vars
    BY <2>1, <2>2 DEF SourceNext, SourceEnd, MaybeEmitError, Consume, Expire, vars, chanVars, errVars
  <2>3. ASSUME NEW g \in Routine, NEW h \in Routine, Pass(g, h)
        PROVE  UNCHANGED <<closed, exited, caller>>
    BY <2>3 DEF Pass, errVars
  <2>4. ASSUME NEW g \in Routine,
               \/ SendOnClosed(g) \/ ReceiveClosed(g) \/ Quit(g)
               \/ Forward(g) \/ Discard(g) \/ ProcessFails(g)
        PROVE  UNCHANGED <<closed, exited, caller>>
    BY <2>4 DEF SendOnClosed, ReceiveClosed, Quit, Forward, Discard, ProcessFails,
       MaybeEmitError, chanVars, errVars
  <2>5. CASE Collect
    <3>1. exited # Group
      BY DEF OneCloses, Group
    <3>2. UNCHANGED <<closed, exited, caller>>
      BY <2>5, <3>1 DEF Collect, ErrChClosed, chanVars
    <3> QED BY <2>1, <3>2
  <2> QED BY <2>1, <2>2, <2>3, <2>4, <2>5, CloseOutputOnce, StepCases
<1>3. OneCloses => caller # "returned"
  BY DEF OneCloses
<1> QED BY <1>1, <1>2, <1>3, PipelineInvariant, PTL DEF Spec
=============================================================================
