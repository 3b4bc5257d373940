----------------------------- MODULE RingBuffer -----------------------------
(***************************************************************************)
(* The ring buffer between the emulation thread and the audio callback     *)
(* (ring_buffer.h): one thread pushes and one pops any number of slots at  *)
(* a time, each in two copies where the range wraps, and publishes its     *)
(* index at the end.  Samples are numbered in the order they are pushed.   *)
(***************************************************************************)
EXTENDS Integers, SequencesExt

CONSTANTS
  capacity,
  Width,           \* indices are numbers modulo Width, 2^64 in the program
  MaxSlots,        \* bound: slots in one call
  Samples          \* bound: samples pushed in all

RingBufferAssumption ==
  /\ capacity \in Nat \ {0} /\ Width \in Nat /\ Width % capacity = 0
  /\ capacity < Width /\ MaxSlots \in Nat /\ Samples \in Nat

VARIABLES
  m_write_index, m_read_index, m_data,
  push, pop,       \* the call in progress on each side: its step, position and count
  output,          \* what the call of Pop has copied
  sent, received   \* samples that Push took and Pop returned

vars == <<m_write_index, m_read_index, m_data, push, pop, output, sent, received>>

Idle == [step |-> "idle", pos |-> 0, count |-> 0]

Init ==
  /\ m_write_index = 0 /\ m_read_index = 0
  /\ m_data = [i \in 0 .. capacity - 1 |-> 0]
  /\ push = Idle /\ pop = Idle /\ output = <<>>
  /\ sent = 0 /\ received = <<>>

\* The slots a call copies before and after the end of the array
FirstCopy(call) == Min({capacity - call.pos, call.count})
SecondCopy(call) == call.count - FirstCopy(call)

SlotsFilled == (m_write_index - m_read_index) % Width

SlotsFree == capacity - SlotsFilled

-----------------------------------------------------------------------------
(* Push *)

PushBegin(slot_count) ==
  /\ push.step = "idle" /\ sent + slot_count <= Samples
  /\ push' = [step |-> "first", pos |-> m_write_index % capacity,
              count |-> Min({slot_count, SlotsFree})]
  /\ UNCHANGED <<m_write_index, m_read_index, m_data, pop, output, sent, received>>

\* memcpy of n samples, the first of which has the number from, to position to
Copied(to, from, n) ==
  [i \in DOMAIN m_data |-> IF i \in to .. to + n - 1 THEN from + (i - to) ELSE m_data[i]]

PushFirst ==
  /\ push.step = "first" /\ push' = [push EXCEPT !.step = "second"]
  /\ m_data' = Copied(push.pos, sent + 1, FirstCopy(push))
  /\ UNCHANGED <<m_write_index, m_read_index, pop, output, sent, received>>

PushSecond ==
  /\ push.step = "second" /\ push' = [push EXCEPT !.step = "publish"]
  /\ m_data' = Copied(0, sent + 1 + FirstCopy(push), SecondCopy(push))
  /\ UNCHANGED <<m_write_index, m_read_index, pop, output, sent, received>>

PushEnd ==
  /\ push.step = "publish" /\ push' = Idle
  /\ m_write_index' = (m_write_index + push.count) % Width
  /\ sent' = sent + push.count
  /\ UNCHANGED <<m_read_index, m_data, pop, output, received>>

-----------------------------------------------------------------------------
(* Pop *)

PopBegin(max_slots) ==
  /\ pop.step = "idle"
  /\ pop' = [step |-> "first", pos |-> m_read_index % capacity,
             count |-> Min({max_slots, SlotsFilled})]
  /\ output' = <<>>
  /\ UNCHANGED <<m_write_index, m_read_index, m_data, push, sent, received>>

PopFirst ==
  /\ pop.step = "first" /\ pop' = [pop EXCEPT !.step = "second"]
  /\ output' = [i \in 1 .. FirstCopy(pop) |-> m_data[pop.pos + i - 1]]
  /\ UNCHANGED <<m_write_index, m_read_index, m_data, push, sent, received>>

PopSecond ==
  /\ pop.step = "second" /\ pop' = [pop EXCEPT !.step = "publish"]
  /\ output' = output \o [i \in 1 .. SecondCopy(pop) |-> m_data[i - 1]]
  /\ UNCHANGED <<m_write_index, m_read_index, m_data, push, sent, received>>

PopEnd ==
  /\ pop.step = "publish" /\ pop' = Idle
  /\ m_read_index' = (m_read_index + pop.count) % Width
  /\ received' = received \o output
  /\ output' = <<>>
  /\ UNCHANGED <<m_write_index, m_data, push, sent>>

-----------------------------------------------------------------------------
Next ==
  \/ \E n \in 0 .. MaxSlots : PushBegin(n) \/ PopBegin(n)
  \/ PushFirst \/ PushSecond \/ PushEnd
  \/ PopFirst \/ PopSecond \/ PopEnd

Spec == Init /\ [][Next]_vars

-----------------------------------------------------------------------------
TypeOK ==
  /\ m_write_index \in 0 .. Width - 1 /\ m_read_index \in 0 .. Width - 1
  /\ m_data \in [0 .. capacity - 1 -> 0 .. Samples]
  /\ {push, pop} \subseteq [step : {"idle", "first", "second", "publish"},
                            pos : 0 .. capacity - 1, count : 0 .. capacity]
  /\ output \in Seq(1 .. Samples) /\ received \in Seq(1 .. Samples) /\ sent \in 0 .. Samples

(* Pop returns the samples that Push took, each once, in order and intact, whatever both      *)
(* sides were doing at the time; and the rest of them is in the buffer.                       *)
StreamIntact ==
  /\ \A i \in 1 .. Len(received) : received[i] = i
  /\ sent - Len(received) = SlotsFilled
  /\ \A i \in 0 .. SlotsFilled - 1 :
       m_data[(m_read_index + i) % capacity] = Len(received) + i + 1

\* The slots that a call in progress touches
Touched(call) == {(call.pos + i) % capacity : i \in 0 .. call.count - 1}

(* A slot is never written while it is read.                                                  *)
CopiesApart ==
  push.step # "idle" /\ pop.step # "idle" => Touched(push) \cap Touched(pop) = {}
=============================================================================
