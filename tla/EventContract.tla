---------------------------- MODULE EventContract ----------------------------
(***************************************************************************)
(* What a set of event flags promises.  A reader sleeps while the flags do *)
(* not meet its demand; the write after which they do wakes it, and every  *)
(* other reader whose demand they meet.  A woken reader takes the flags    *)
(* when it runs; by then another reader may have cleared them.             *)
(***************************************************************************)
EXTENDS KernelLists

CONSTANTS
  Task,     (* who reads                                                   *)
  Event,    (* the event control blocks                                    *)
  Bit,      (* the flags of one of them                                    *)
  Demand,   (* what readers wait for: a mask, a mode, whether they clear   *)
  NoDemand

VARIABLES
  word,     (* the flags that are set                                      *)
  want,     (* the demand of a sleeping or woken reader                    *)
  asleep,   (* the sleeping readers of each event                          *)
  woken     (* those that were woken and have not run                      *)

flags == <<word, want, asleep, woken>>

(* The flags a reader with demand d gets, none unless its demand is met.   *)
Gets(set, d) ==
  IF d.mode = "or" \/ d.mask \subseteq set THEN set \cap d.mask ELSE {}

Left(set, d) == IF d.clear THEN set \ Gets(set, d) ELSE set

Init ==
  /\ word \in [Event -> SUBSET Bit]
  /\ want = [t \in Task |-> NoDemand]
  /\ asleep = [e \in Event |-> {}] /\ woken = [e \in Event |-> {}]

Make(e) ==
  /\ asleep[e] = {}
  /\ word' = [word EXCEPT ![e] = {}]
  /\ UNCHANGED <<want, asleep, woken>>

Take(e, d) ==
  /\ word' = [word EXCEPT ![e] = Left(@, d)]
  /\ UNCHANGED <<want, asleep, woken>>

Sleep(t, e, d) ==
  /\ Gets(word[e], d) = {} /\ want[t] = NoDemand
  /\ want' = [want EXCEPT ![t] = d]
  /\ asleep' = [asleep EXCEPT ![e] = @ \cup {t}]
  /\ UNCHANGED <<word, woken>>

Write(e, bits) ==
  LET winners == {t \in asleep[e] : Gets(word[e] \cup bits, want[t]) # {}} IN
  /\ word' = [word EXCEPT ![e] = @ \cup bits]
  /\ asleep' = [asleep EXCEPT ![e] = @ \ winners]
  /\ woken' = [woken EXCEPT ![e] = @ \cup winners]
  /\ UNCHANGED want

GoOn(t, e) ==
  /\ t \in woken[e]
  /\ word' = [word EXCEPT ![e] = Left(@, want[t])]
  /\ want' = [want EXCEPT ![t] = NoDemand]
  /\ woken' = [woken EXCEPT ![e] = @ \ {t}]
  /\ UNCHANGED asleep

GiveUp(t, e) ==
  /\ t \in asleep[e]
  /\ want' = [want EXCEPT ![t] = NoDemand]
  /\ asleep' = [asleep EXCEPT ![e] = @ \ {t}]
  /\ UNCHANGED <<word, woken>>

Clear(e, bits) ==
  /\ word' = [word EXCEPT ![e] = @ \ bits]
  /\ UNCHANGED <<want, asleep, woken>>

Next ==
  \E e \in Event :
    \/ Make(e)
    \/ \E bits \in SUBSET Bit : Write(e, bits) \/ Clear(e, bits)
    \/ \E d \in Demand : Take(e, d) \/ \E t \in Task : Sleep(t, e, d)
    \/ \E t \in Task : GoOn(t, e) \/ GiveUp(t, e)

Spec == Init /\ [][Next]_flags
=============================================================================
