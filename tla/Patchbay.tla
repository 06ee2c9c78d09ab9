------------------------------ MODULE Patchbay ------------------------------
(***************************************************************************)
(* The patch bay of the emulator: channels (chan.c), the dirty list and    *)
(* the propagation of the bay (bay.c), the muxes (mux.c), the sort module  *)
(* fed by channels (sort.c) and the rows of the Paraver trace (pv/prv.c).  *)
(* How they are connected is a parameter: each emulation model gives its   *)
(* own graph of channels.                                                  *)
(*                                                                         *)
(* The event handlers write some channels while the bay is ready, and then *)
(* emu_step() propagates: every dirty channel runs its dirty callbacks,    *)
(* which may write other channels and so queue them, then every dirty      *)
(* channel is emitted and flushed.  One step of the model is one callback. *)
(***************************************************************************)
EXTENDS Integers, Sequences, FiniteSets, FiniteSetsExt, SequencesExt

CONSTANTS
    Chan,          \* the channels that some model may register in the bay
    Stack,         \* those of type CHAN_STACK
    DirtyWrite,    \* those with the property CHAN_DIRTY_WRITE
    AllowDup,      \* ... CHAN_ALLOW_DUP
    IgnoreDup,     \* ... CHAN_IGNORE_DUP
    MaxStack,      \* MAX_CHAN_STACK
    Null,          \* the null value; the others are integers
    Mux,           \* the muxes
    MuxSel,        \* mux->select, a channel of each mux
    MuxOut,        \* mux->output
    MuxIn,         \* mux->inputs, a sequence of channels
    MuxDef,        \* mux->def
    Select(_, _, _),  \* mux->select_func, of a mux, the value of its select channel and
                   \* those of its inputs: index of an input, 0 for none, or -1
    SortIn,        \* the inputs of the sort module, a sequence of channels
    SortOut,       \* its outputs, as many
    Row,           \* the channels with an emit callback, a row of the trace
    PrvFlags       \* the PRV_ flags of each row

ASSUME GraphAssumption ==
    /\ {Stack, DirtyWrite, AllowDup, IgnoreDup, Row} \subseteq SUBSET Chan
    /\ MaxStack \in Nat /\ Null \notin Int
    /\ MuxSel \in [Mux -> Chan] /\ MuxOut \in [Mux -> Chan \ Stack]
    /\ MuxIn \in [Mux -> Seq(Chan) \ {<<>>}]
    /\ SortIn \in Seq(Chan) /\ SortOut \in Seq(Chan \ Stack)
    /\ Len(SortIn) = Len(SortOut)

VARIABLES
    bay,       \* the channels and the dirty list, a record
    cbs,       \* bchan->cb[BAY_CB_DIRTY], the enabled callbacks of each channel
    selected,  \* mux->selected, 0 when no input is selected
    values,    \* sort->values
    sorted,    \* sort->sorted
    copied,    \* sort->copied
    out,       \* the next output that sort_cb_input() writes, 0 out of its loop
    prv,       \* of each row, the last value kept and the last one written
    state,     \* bay->state
    pos, cbi   \* the channel of the dirty list and the callback to run

graphVars == <<cbs, selected, values, sorted, copied, out>>
vars == <<bay, graphVars, prv, state, pos, cbi>>

Arr == INSTANCE Sort WITH N <- Len(SortIn)

-----------------------------------------------------------------------------
(* Channels.  A channel holds a stack of values, of length one for single  *)
(* channels.  bay.flag is the set of channels with is_dirty, bay.list the  *)
(* dirty list; bay.ok is cleared by the first operation that fails, which  *)
(* makes the emulator stop.                                                *)

Fail(b) == [b EXCEPT !.ok = FALSE]

\* chan_read() and get_value().
ChanRead(b, c) == IF b.data[c] = <<>> THEN Null ELSE Last(b.data[c])

\* Mistake: the channel is queued at every write.
SetDirtyAgain(b, c) == [b EXCEPT !.flag = @ \cup {c}, !.list = Append(@, c)]

\* set_dirty() and cb_chan_is_dirty(): only the first write queues the channel.
SetDirty(b, c) ==
    IF c \in b.flag THEN b
    ELSE [b EXCEPT !.flag = @ \cup {c}, !.list = Append(@, c)]

\* The checks of every write: a dirty channel is only modified with
\* CHAN_DIRTY_WRITE, and a value is compared with the one of the last flush.
DirtyRefused(b, c) == c \in b.flag /\ c \notin DirtyWrite
IsDup(b, c, v) == c \notin AllowDup /\ v = b.last[c]

ChanSet(b, c, v) ==
    IF ~b.ok THEN b
    ELSE IF c \in Stack \/ DirtyRefused(b, c) THEN Fail(b)
    ELSE IF IsDup(b, c, v) THEN IF c \in IgnoreDup THEN b ELSE Fail(b)
    ELSE SetDirty([b EXCEPT !.data[c] = <<v>>], c)

ChanPush(b, c, v) ==
    IF ~b.ok THEN b
    ELSE IF c \notin Stack \/ DirtyRefused(b, c) THEN Fail(b)
    ELSE IF IsDup(b, c, v) THEN IF c \in IgnoreDup THEN b ELSE Fail(b)
    ELSE IF Len(b.data[c]) >= MaxStack THEN Fail(b)
    ELSE SetDirty([b EXCEPT !.data[c] = Append(@, v)], c)

ChanPop(b, c, v) ==
    IF ~b.ok THEN b
    ELSE IF c \notin Stack \/ DirtyRefused(b, c) THEN Fail(b)
    ELSE IF b.data[c] = <<>> \/ ChanRead(b, c) # v THEN Fail(b)
    ELSE SetDirty([b EXCEPT !.data[c] = Front(@)], c)

\* Mistake: the flush keeps the value the channel had before.
FlushStale(b) == [b EXCEPT !.flag = {}, !.list = <<>>]

\* chan_flush() on every channel of the dirty list.
Flush(b) ==
    LET dirty == ToSet(b.list)
    IN  [b EXCEPT !.last = [c \in DOMAIN b.data |->
                              IF c \in dirty THEN ChanRead(b, c) ELSE b.last[c]],
                  !.flag = @ \ dirty,
                  !.list = <<>>]

-----------------------------------------------------------------------------
(* Dirty callbacks.                                                        *)

Plain(v)      == IF v = Null THEN 0 ELSE v
SelectCb(m)   == <<"select", m, 0>>
InputCb(m, i) == <<"input", m, i>>
SortCb(i)     == <<"sort", "sort", i>>

\* bay_enable_cb() appends the callback to those of its channel.
Enable(cs, c, cb) ==
    IF cb \in ToSet(cs[c]) THEN cs ELSE [cs EXCEPT ![c] = Append(@, cb)]

\* bay_disable_cb() takes it out of them.
Disable(cs, c, cb) ==
    IF cb \notin ToSet(cs[c]) THEN cs
    ELSE [cs EXCEPT ![c] = RemoveAt(@, CHOOSE k \in DOMAIN @ : @[k] = cb)]

\* What select_func decides now.
Selection(m) == Select(m, ChanRead(bay, MuxSel[m]),
                       [i \in DOMAIN MuxIn[m] |-> ChanRead(bay, MuxIn[m][i])])

\* Mistake: the input selected before keeps its callback.
cb_selectKeep(m) ==
    LET i == Selection(m)
    IN  /\ selected' = [selected EXCEPT ![m] = i]
        /\ cbs' = IF i <= 0 THEN cbs ELSE Enable(cbs, MuxIn[m][i], InputCb(m, i))
        /\ bay' = ChanSet(bay, MuxOut[m], IF i = 0 THEN MuxDef[m]
                                          ELSE ChanRead(bay, MuxIn[m][i]))

\* cb_select(): the select channel of the mux changed.  The callback of the old
\* input is disabled and the one of the new input enabled, and the output takes
\* the value of the input, or the default one when none is selected.
cb_select(m) ==
    LET i    == Selection(m)
        old  == selected[m]
        left == IF old = 0 THEN cbs
                ELSE Disable(cbs, MuxIn[m][old], InputCb(m, old))
    IN  IF i = -1
        THEN /\ selected' = [selected EXCEPT ![m] = 0]
             /\ cbs' = left
             /\ bay' = Fail(bay)
        ELSE /\ selected' = [selected EXCEPT ![m] = i]
             /\ cbs' = IF i = 0 THEN left
                       ELSE Enable(left, MuxIn[m][i], InputCb(m, i))
             /\ bay' = ChanSet(bay, MuxOut[m], IF i = 0 THEN MuxDef[m]
                                               ELSE ChanRead(bay, MuxIn[m][i]))

\* cb_input(): the selected input changed.
cb_input(m, i) ==
    /\ bay' = ChanSet(bay, MuxOut[m], ChanRead(bay, MuxIn[m][i]))
    /\ UNCHANGED <<cbs, selected>>

\* sort_cb_input(): nothing when the value is the same, otherwise the arrays of
\* the sort module are updated and then its outputs, from the first.
sort_cb_input(i) ==
    LET new == Plain(ChanRead(bay, SortIn[i]))
    IN  /\ IF new = values[i]
           THEN UNCHANGED <<values, sorted, copied>> /\ out' = 0
           ELSE Arr!SortInput(i, new) /\ out' = 1
        /\ UNCHANGED bay

\* default_select(): the key is the index of the input, from 0.
DefaultSelect(m, key) ==
    IF key = Null THEN 0
    ELSE IF key + 1 \in DOMAIN MuxIn[m] THEN key + 1 ELSE -1

-----------------------------------------------------------------------------
(* Propagation.                                                            *)

\* Mistake: the walk looks again at the channel it comes from.
NextChanAgain(list, cs, p) ==
    LET q == {j \in p - 1 .. Len(list) : j > 0 /\ cs[list[j]] # <<>>}
    IN  IF q = {} THEN Len(list) + 1 ELSE Min(q)

\* The next channel of the dirty list from p with some callback to run.
NextChan(list, cs, p) ==
    LET q == {j \in p .. Len(list) : cs[list[j]] # <<>>}
    IN  IF q = {} THEN Len(list) + 1 ELSE Min(q)

\* An event handler ran in the ready state and left the channels as b; when it
\* did not fail emu_step() begins to propagate (emu_connect() does the same).
Handled(b) ==
    /\ state = "ready"
    /\ bay' = b
    /\ state' = IF b.ok THEN "propagating" ELSE "error"
    /\ pos' = NextChan(b.list, cbs, 1)
    /\ cbi' = 1
    /\ UNCHANGED <<graphVars, prv>>

\* DL_FOREACH: the callback after cb in the list of c, or the next channel.  The
\* lists may have changed while cb ran.
Advance(c, cb) ==
    LET here == CHOOSE k \in DOMAIN cbs'[c] : cbs'[c][k] = cb
    IN  IF here < Len(cbs'[c])
        THEN pos' = pos /\ cbi' = here + 1
        ELSE pos' = NextChan(bay'.list, cbs', pos + 1) /\ cbi' = 1

StopOnError == state' = IF bay'.ok THEN state ELSE "error"

CurChan == bay.list[pos]
CurCb   == cbs[CurChan][cbi]
Walking == state = "propagating" /\ pos <= Len(bay.list)

\* propagate_chan() in the dirty phase: one callback of a mux.
RunMux ==
    /\ Walking /\ out = 0
    /\ \/ CurCb[1] = "select" /\ cb_select(CurCb[2])
       \/ CurCb[1] = "input" /\ cb_input(CurCb[2], CurCb[3])
    /\ Advance(CurChan, CurCb) /\ StopOnError
    /\ UNCHANGED <<values, sorted, copied, out, prv>>

\* ... or one of the sort module,
RunSort ==
    /\ Walking /\ out = 0
    /\ CurCb[1] = "sort" /\ sort_cb_input(CurCb[3])
    /\ UNCHANGED <<cbs, selected, prv, state>>
    /\ IF out' = 0 THEN Advance(CurChan, CurCb) ELSE UNCHANGED <<pos, cbi>>

\* that goes on with its loop over the outputs, writing those that change.
WriteOutput ==
    /\ Walking /\ out # 0
    /\ bay' = IF ChanRead(bay, SortOut[out]) = sorted[out] THEN bay
              ELSE ChanSet(bay, SortOut[out], sorted[out])
    /\ out' = IF out < Len(SortOut) THEN out + 1 ELSE 0
    /\ UNCHANGED <<cbs, selected, values, sorted, copied, prv>>
    /\ IF out' = 0 THEN Advance(CurChan, CurCb) ELSE UNCHANGED <<pos, cbi>>
    /\ StopOnError

\* emit() of prv.c: the state of the row after the value v of its channel is
\* emitted.  A duplicate is skipped, emitted or refused depending on the flags,
\* null is written as 0 and a zero needs PRV_ZERO.
Emit(p, v, flags) ==
    LET dup  == "emitdup" \notin flags /\ p.set /\ v = p.last
        kept == IF "emitdup" \in flags THEN p
                ELSE [p EXCEPT !.last = v, !.set = TRUE]
        val  == IF v = Null THEN 0 ELSE IF "next" \in flags THEN v + 1 ELSE v
    IN  IF dup /\ ("skipdup" \in flags \/ ("skipdupnull" \in flags /\ v = Null))
        THEN p
        ELSE IF dup /\ "skipdupnull" \notin flags
             THEN [p EXCEPT !.ok = FALSE]
             ELSE IF v # Null /\ val = 0 /\ "zero" \notin flags
                  THEN [kept EXCEPT !.ok = FALSE]
                  ELSE [kept EXCEPT !.line = val]

\* Once no dirty callback is left the dirty channels are emitted, flushed and
\* the bay is ready again.
EmitAndFlush ==
    /\ state = "propagating"
    /\ pos > Len(bay.list)
    /\ LET dirty == ToSet(bay.list)
       IN  prv' = [c \in DOMAIN prv |-> IF c \in dirty
                                        THEN Emit(prv[c], ChanRead(bay, c), PrvFlags[c])
                                        ELSE prv[c]]
    /\ IF \A c \in DOMAIN prv : prv'[c].ok
       THEN state' = "ready" /\ bay' = Flush(bay)
       ELSE state' = "error" /\ bay' = Fail(bay)
    /\ pos' = 1 /\ cbi' = 1
    /\ UNCHANGED graphVars

\* The channels of C as chan_init() and bay_register() leave them.
EmptyBay(C) ==
    [data |-> [c \in C |-> IF c \in Stack THEN <<>> ELSE <<Null>>],
     last |-> [c \in C |-> Null],
     flag |-> {}, list |-> <<>>, ok |-> TRUE]

\* The start, when the models have connected the callbacks of cb and written b,
\* and emu_connect() propagates it.  mux_init() clears the mux, so its first
\* input is marked as selected with its callback disabled.
BayInit(b, cb) ==
    /\ bay = b
    /\ cbs = cb
    /\ selected = [m \in {x \in Mux : {MuxSel[x], MuxOut[x]} \subseteq DOMAIN b.data} |-> 1]
    /\ Arr!SortInit /\ out = 0
    /\ prv = [c \in Row \cap DOMAIN b.data |-> [set |-> FALSE, last |-> Null,
                                            line |-> 0, ok |-> TRUE]]
    /\ state = "propagating"
    /\ pos = NextChan(b.list, cb, 1) /\ cbi = 1

Propagate == RunMux \/ RunSort \/ WriteOutput \/ EmitAndFlush

-----------------------------------------------------------------------------
(* Properties.                                                             *)

\* A channel is in the dirty list exactly when its dirty flag is set, and only
\* once, however many times it was written: the intrusive list of bay.c would be
\* corrupted by a second append, and a flagged channel out of it never flushed.
ListedOnce ==
    /\ ToSet(bay.list) = bay.flag
    /\ \A i, j \in DOMAIN bay.list : bay.list[i] = bay.list[j] => i = j

\* Between events no channel is dirty and the value that the next write is
\* compared with is the one the channel shows (chan_flush after a propagation).
CleanWhenReady ==
    state = "ready" =>
        /\ bay.list = <<>> /\ bay.flag = {}
        /\ \A c \in DOMAIN bay.data : bay.last[c] = ChanRead(bay, c)

\* The inputs of a mux whose callback is enabled, and whether it ever selected.
Enabled(m) == {i \in DOMAIN MuxIn[m] : InputCb(m, i) \in ToSet(cbs[MuxIn[m][i]])}
Settled(m) == selected[m] = 0 \/ selected[m] \in Enabled(m)

\* Every propagation ends: a callback that writes a channel already dirty does not
\* queue it again, so the walk of the dirty list reaches its end.
PropagationEnds == state = "propagating" ~> state # "propagating"

\* After a propagation every mux that ever selected shows its selected input, or
\* the default value: no order of the callbacks leaves an output behind.
MuxFollows ==
    state = "ready" => \A m \in DOMAIN selected : Settled(m) =>
        ChanRead(bay, MuxOut[m]) =
            IF selected[m] = 0 THEN MuxDef[m] ELSE ChanRead(bay, MuxIn[m][selected[m]])

\* How many times v is in s.
Occurrences(s, v) == Cardinality({i \in DOMAIN s : s[i] = v})

\* After a propagation the outputs of the sort module are its inputs of now in
\* increasing order.
SortedOutputs ==
    state = "ready" =>
        LET ins  == [i \in DOMAIN SortIn |-> Plain(ChanRead(bay, SortIn[i]))]
            outs == [i \in DOMAIN SortOut |-> Plain(ChanRead(bay, SortOut[i]))]
        IN  /\ \A i \in 1 .. Len(outs) - 1 : outs[i] <= outs[i + 1]
            /\ \A v \in ToSet(ins) \cup ToSet(outs) :
                    Occurrences(ins, v) = Occurrences(outs, v)
=============================================================================
