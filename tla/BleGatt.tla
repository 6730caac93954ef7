------------------------------- MODULE BleGatt -------------------------------
(***************************************************************************)
(* ble_hid_host.c: what follows once a keyboard's link is encrypted.  The      *)
(* reports of its HID service are discovered, the input reports subscribed, or *)
(* polled by a timer where that is not possible.  All callbacks of discovery   *)
(* run in the NimBLE host task, one after another; poll_timer_cb runs in the   *)
(* timer task.                                                               *)
(*                                                                         *)
(* The stack and the keyboard are external.  A request is a procedure of a     *)
(* pool of MAX_PROCS, the keyboard answers in order, and a request for which    *)
(* the pool has no room is refused; the code does not look at the result.      *)
(* A search for descriptors goes from a value to the end of the service,        *)
(* PAIRS attributes in a response, and ends without another request when the   *)
(* last attribute was the last of the service; a response is a callback for     *)
(* each of its attributes, and then no other event is handled between them.     *)
(* A procedure counts until its last callback has returned.  Procedures do not  *)
(* outlive their link: they end with errors before the code hears of the        *)
(* disconnection, and whatever these errors write, start_discovery clears       *)
(* before anyone reads it.                                                  *)
(***************************************************************************)
EXTENDS Integers, Sequences, FiniteSets, SequencesExt

CONSTANTS Layouts,           \* HID services of keyboards: sequences of attributes
          PAIRS,             \* attributes in a response with descriptors
          MAX_REPORTS, MAX_POLL_HANDLES,
          MAX_PROCS,         \* procedures of the stack
          Budgets            \* bounds: links, encryptions, errors, polls and keys

\* Attributes of a service.
Val(input, notify) == [kind |-> "val", input |-> input, notify |-> notify]
Cccd == [kind |-> "cccd"]
Ref == [kind |-> "ref"]
Other == [kind |-> "other"]
Attributes == {Val(input, notify) : input \in BOOLEAN, notify \in BOOLEAN} \cup {Cccd, Ref, Other}

\* v is the value of the characteristic that the attribute h of the service l is in.
BelongsTo(l, h, v) == /\ v \in 1 .. h /\ l[v].kind = "val"
                      /\ \A u \in v + 1 .. h : l[u].kind # "val"

GENERATIONS == 256   \* s_disc_gen is an uint8_t

\* A service begins with a value.  The bounds end before the generations repeat.
ASSUME BleGattAssumption ==
    /\ {PAIRS, MAX_REPORTS, MAX_POLL_HANDLES, MAX_PROCS} \subseteq Nat \ {0}
    /\ Layouts \subseteq Seq(Attributes)
    /\ \A l \in Layouts : \A h \in DOMAIN l : \E v \in 1 .. h : BelongsTo(l, h, v)
    /\ Budgets \subseteq [links : Nat, sessions : Nat, errors : Nat, polls : Nat, keys : Nat]
    /\ \A b \in Budgets : b.links + b.sessions < GENERATIONS

VARIABLES
    layout,      \* keyboard: its attributes, an attribute's handle is its place
    enabled,     \* keyboard: CCCDs that were written
    connected,   \* s_ctx.connected, once LINK_ESTAB was handled
    s_disc_gen,  \* generation of the discovery
    s_gatt,      \* reports, cccd and ref (by report), waiting, subs
    s_poll,      \* handles, last_val and current
    polling,     \* s_poll_timer is running
    pcb,         \* poll_timer_cb: what it read, or NoPoll
    att,         \* stack: procedures under way, the oldest first
    key,         \* keyboard: the report a key is down in, or 0
    heard,       \* engine: the report whose key it was last told is down, or 0
    phase,       \* history: discovery on this link, "none", "going" or "ready"
    broken,      \* history: a request of this discovery found no room, or it failed
    disturbed,   \* history: an error, a poll or an earlier discovery met it
    missed,      \* history: a key that was heard went up while nobody listened
    left         \* what is left of the bounds

keys == <<key, heard, missed>>
history == <<phase, broken, disturbed>>
gattVars == <<layout, enabled, connected, s_disc_gen, s_gatt, s_poll, polling, pcb, att,
             keys, history, left>>

SvcEnd == Len(layout)
IsKind(h, kind) == layout[h].kind = kind
Values == {h \in 1 .. SvcEnd : IsKind(h, "val")}
Inputs == {h \in Values : layout[h].input}
\* The characteristic a descriptor belongs to, and the descriptors it has.
Owner(h) == CHOOSE v \in 1 .. h : BelongsTo(layout, h, v)
CccdsOf(v) == {h \in 1 .. SvcEnd : IsKind(h, "cccd") /\ Owner(h) = v}
RefType(h) == IF layout[Owner(h)].input THEN "input" ELSE "output"
RefsOf(type) == {h \in 1 .. SvcEnd : IsKind(h, "ref") /\ RefType(h) = type}
\* An input without a Report Reference, when the next one is that of an output.
Misled == {v \in Inputs : \E h \in RefsOf("output") :
                              v < h /\ RefsOf("input") \cap (v + 1 .. h - 1) = {}}

NoGatt == [reports |-> <<>>, cccd |-> <<>>, ref |-> <<>>, waiting |-> FALSE, subs |-> <<>>]
NoPolls == [handles |-> <<>>, last_val |-> [i \in 1 .. MAX_POLL_HANDLES |-> 0], current |-> 0]
NoPoll == [idx |-> 0, count |-> 0]

\* One use of a bounded event.
Spend(what) == left[what] > 0 /\ left' = [left EXCEPT ![what] = @ - 1]

GattInit ==
    /\ layout \in Layouts /\ enabled = {} /\ connected = FALSE
    /\ s_disc_gen = 0 /\ s_gatt = NoGatt /\ s_poll = NoPolls /\ polling = FALSE /\ pcb = NoPoll
    /\ att = <<>> /\ phase = "none" /\ broken = FALSE /\ disturbed = FALSE
    /\ key = 0 /\ heard = 0 /\ missed = FALSE
    /\ left \in Budgets

-----------------------------------------------------------------------------
(* What a callback works on: the statics, the timer and the stack.  A callback *)
(* is written as a function from one such record to the next.                  *)

Work == [gatt |-> s_gatt, poll |-> s_poll, polling |-> polling, att |-> att,
         broken |-> broken, disturbed |-> disturbed, phase |-> phase]
Becomes(w) ==
    /\ s_gatt' = w.gatt /\ s_poll' = w.poll /\ polling' = w.polling /\ att' = w.att
    /\ broken' = w.broken /\ disturbed' = w.disturbed /\ phase' = w.phase

\* A procedure: the report and the attribute it is about; of a search also the end
\* of the response under way, or 0.
Proc(op, idx, at) == [op |-> op, gen |-> s_disc_gen, idx |-> idx, at |-> at, upto |-> 0]
Send(w, proc) == IF Len(w.att) < MAX_PROCS THEN [w EXCEPT !.att = Append(@, proc)]
                                           ELSE [w EXCEPT !.broken = TRUE]
Done(w) == [w EXCEPT !.att = Tail(@)]

\* A wrong test, off by one.
AddPollPastEnd(w, idx) ==
    IF Len(w.poll.handles) <= MAX_POLL_HANDLES
    THEN [w EXCEPT !.poll.handles = Append(@, w.gatt.reports[idx])] ELSE w
AddPoll(w, idx) ==
    IF Len(w.poll.handles) < MAX_POLL_HANDLES
    THEN [w EXCEPT !.poll.handles = Append(@, w.gatt.reports[idx])] ELSE w

HidReady(w) == [w EXCEPT !.polling = @ \/ w.poll.handles # <<>>, !.phase = "ready"]

SubscribeReport(w, idx) ==
    IF idx > Len(w.gatt.reports) THEN HidReady(w)
    ELSE Send([w EXCEPT !.gatt.cccd[idx] = 0, !.gatt.ref[idx] = "unknown",
                        !.gatt.waiting = FALSE],
              Proc("dscs", idx, w.gatt.reports[idx]))

\* The end of on_read_report_ref and of on_disc_dscs.  A wrong end: what cannot be
\* subscribed is skipped.
ChooseSkips(w, idx) ==
    LET cccd == w.gatt.cccd[idx]
    IN  IF w.gatt.ref[idx] # "output" /\ cccd # 0 /\ layout[w.gatt.reports[idx]].notify
        THEN Send(w, Proc("write", idx, cccd)) ELSE SubscribeReport(w, idx + 1)
Choose(w, idx) ==
    LET input == w.gatt.ref[idx] # "output"
        cccd == w.gatt.cccd[idx]
    IN  IF input /\ cccd # 0 /\ layout[w.gatt.reports[idx]].notify
        THEN Send(w, Proc("write", idx, cccd))
        ELSE SubscribeReport(IF input THEN AddPoll(w, idx) ELSE w, idx + 1)

OnDsc(w, h, idx) ==
    CASE IsKind(h, "ref") -> Send([w EXCEPT !.gatt.waiting = TRUE], Proc("ref", idx, h))
      [] IsKind(h, "cccd") -> [w EXCEPT !.gatt.cccd[idx] = h]
      [] OTHER -> w

-----------------------------------------------------------------------------
(* The link.                                                                 *)

LinkFrame == UNCHANGED <<layout, pcb, keys>>

\* A bonded keyboard may remember which reports were enabled.
Connect ==
    /\ ~connected /\ Spend("links")
    /\ connected' = TRUE /\ enabled' \in {enabled, {}}
    /\ UNCHANGED <<s_disc_gen, s_gatt, s_poll, polling, att, history>> /\ LinkFrame

NextGen == (s_disc_gen + 1) % GENERATIONS
\* The host task is between two callbacks of a response.
Responding == att # <<>> /\ Head(att).upto # 0

\* ENC_CHANGE, which comes again when the keyboard asks for another encryption.
StartDiscovery ==
    /\ connected /\ ~Responding /\ Spend("sessions")
    /\ s_disc_gen' = NextGen
    /\ Becomes(Send([Work EXCEPT !.gatt = NoGatt, !.poll = NoPolls, !.polling = FALSE,
                                 !.broken = FALSE, !.disturbed = phase # "none",
                                 !.phase = "going"],
                    [Proc("svcs", 0, 0) EXCEPT !.gen = NextGen]))
    /\ UNCHANGED <<enabled, connected>> /\ LinkFrame

Disconnect ==
    /\ connected /\ ~Responding
    /\ connected' = FALSE /\ s_disc_gen' = NextGen
    /\ Becomes([Work EXCEPT !.polling = FALSE, !.att = <<>>, !.phase = "none"])
    /\ UNCHANGED <<enabled, left>> /\ LinkFrame

-----------------------------------------------------------------------------
(* The callbacks of discovery.                                               *)

Answered(op) == att # <<>> /\ Head(att).op = op
Current == Head(att).gen = s_disc_gen
Idx == Head(att).idx
AttFrame == UNCHANGED <<layout, connected, s_disc_gen, pcb, keys>>
Fate(ok) == IF ok THEN UNCHANGED left ELSE Spend("errors")

OnDiscSvcs ==
    /\ Answered("svcs")
    /\ Becomes(Done(IF Current THEN Send(Work, Proc("chrs", 0, 0)) ELSE Work))
    /\ UNCHANGED <<enabled, left>> /\ AttFrame

\* One callback for each characteristic, and a last one.
NewReport(w, v) ==
    IF Len(w.gatt.reports) < MAX_REPORTS
    THEN [w EXCEPT !.gatt.reports = Append(@, v), !.gatt.cccd = Append(@, 0),
                   !.gatt.ref = Append(@, "unknown")]
    ELSE w
OnDiscChr ==
    /\ Answered("chrs") /\ Head(att).at < SvcEnd
    /\ LET h == Head(att).at + 1
           w == IF Current /\ IsKind(h, "val") THEN NewReport(Work, h) ELSE Work
       IN  Becomes([w EXCEPT !.att[1].at = h])
    /\ UNCHANGED <<enabled, left>> /\ AttFrame
OnDiscChrsDone ==
    /\ Answered("chrs") /\ Head(att).at = SvcEnd
    /\ Becomes(Done(IF Current THEN SubscribeReport(Work, 1) ELSE Work))
    /\ UNCHANGED <<enabled, left>> /\ AttFrame

\* The next request of a search goes behind the others.
OnDiscDsc ==
    /\ Answered("dscs") /\ Head(att).at < SvcEnd
    /\ LET h == Head(att).at + 1
           upto == IF Responding THEN Head(att).upto
                   ELSE IF SvcEnd < h + PAIRS THEN SvcEnd ELSE h + PAIRS - 1
           w == IF Current THEN OnDsc(Work, h, Idx) ELSE Work
       IN  Becomes(IF h = upto /\ h < SvcEnd
                   THEN [Done(w) EXCEPT !.att = Append(@, [Head(att) EXCEPT !.at = h, !.upto = 0])]
                   ELSE [w EXCEPT !.att[1] = [@ EXCEPT !.at = h, !.upto = upto]])
    /\ UNCHANGED <<enabled, left>> /\ AttFrame
OnDiscDscsDone ==
    /\ Answered("dscs") /\ Head(att).at = SvcEnd
    /\ Becomes(Done(IF Current /\ ~s_gatt.waiting THEN Choose(Work, Idx) ELSE Work))
    /\ UNCHANGED <<enabled, left>> /\ AttFrame

\* A search that fails is over, whatever it was for.
DiscoveryFails ==
    /\ Answered("svcs") \/ Answered("chrs") \/ Answered("dscs")
    /\ ~Responding /\ Spend("errors")
    /\ Becomes(Done([Work EXCEPT !.broken = @ \/ Current, !.disturbed = TRUE]))
    /\ UNCHANGED enabled /\ AttFrame

\* A wrong callback: like the others it does nothing after an error.
OnReadReportRefReturns(ok) ==
    /\ Answered("ref")
    /\ LET w == [Work EXCEPT !.gatt.ref[Idx] = RefType(Head(att).at), !.gatt.waiting = FALSE]
       IN  Becomes(Done(IF Current /\ ok THEN Choose(w, Idx) ELSE Work))
    /\ Fate(ok) /\ UNCHANGED enabled /\ AttFrame
OnReadReportRef(ok) ==
    /\ Answered("ref")
    /\ LET w == IF ok THEN [Work EXCEPT !.gatt.ref[Idx] = RefType(Head(att).at)]
                 ELSE [Work EXCEPT !.disturbed = TRUE]
       IN  Becomes(Done(IF Current THEN Choose([w EXCEPT !.gatt.waiting = FALSE], Idx) ELSE Work))
    /\ Fate(ok) /\ UNCHANGED enabled /\ AttFrame

\* A wrong callback: a report that cannot be subscribed is not polled.
OnWriteCccdNoFallback(ok) ==
    /\ Answered("write")
    /\ LET w == IF ok THEN [Work EXCEPT !.gatt.subs = Append(@, s_gatt.reports[Idx])] ELSE Work
       IN  Becomes(Done(IF Current THEN SubscribeReport(w, Idx + 1) ELSE Work))
    /\ enabled' = IF ok THEN enabled \cup {Head(att).at} ELSE enabled
    /\ Fate(ok) /\ AttFrame
\* A wrong callback: the count of the list is not advanced.
OnWriteCccdOverwrites(ok) ==
    /\ Answered("write")
    /\ LET w == IF ok THEN [Work EXCEPT !.gatt.subs = <<s_gatt.reports[Idx]>>]
                 ELSE AddPoll([Work EXCEPT !.disturbed = TRUE], Idx)
       IN  Becomes(Done(IF Current THEN SubscribeReport(w, Idx + 1) ELSE Work))
    /\ enabled' = IF ok THEN enabled \cup {Head(att).at} ELSE enabled
    /\ Fate(ok) /\ AttFrame
OnWriteCccd(ok) ==
    /\ Answered("write")
    /\ LET subscribed == [Work EXCEPT !.gatt.subs =
                             IF Len(@) < MAX_REPORTS THEN Append(@, s_gatt.reports[Idx]) ELSE @]
           w == IF ok THEN subscribed ELSE AddPoll([Work EXCEPT !.disturbed = TRUE], Idx)
       IN  Becomes(Done(IF Current THEN SubscribeReport(w, Idx + 1) ELSE Work))
    /\ enabled' = IF ok THEN enabled \cup {Head(att).at} ELSE enabled
    /\ Fate(ok) /\ AttFrame

-----------------------------------------------------------------------------
(* Polling.                                                                  *)

Polled == ToSet(s_poll.handles)
Full == \/ Len(s_gatt.reports) = MAX_REPORTS \/ Len(s_gatt.subs) = MAX_REPORTS
        \/ Len(s_poll.handles) = MAX_POLL_HANDLES
Complete == phase = "ready" /\ ~broken /\ ~Full

\* poll_timer_cb reads the list, which the host task may clear meanwhile.
PollTurn ==
    /\ polling /\ pcb = NoPoll /\ Spend("polls")
    /\ connected /\ s_poll.handles # <<>>
    /\ pcb' = [idx |-> s_poll.current + 1, count |-> Len(s_poll.handles)]
    /\ UNCHANGED <<layout, enabled, connected, s_disc_gen, s_gatt, s_poll, polling, att,
                   keys, history>>
PollRead ==
    /\ pcb # NoPoll /\ pcb' = NoPoll
    /\ s_poll' = [s_poll EXCEPT !.current = pcb.idx % pcb.count]
    /\ LET handle == IF pcb.idx \in DOMAIN s_poll.handles THEN s_poll.handles[pcb.idx] ELSE 0
       IN  att' = IF connected THEN Send(Work, Proc("poll", pcb.idx, handle)).att ELSE att
    /\ disturbed' = (disturbed \/ phase = "going")
    /\ UNCHANGED <<layout, enabled, connected, s_disc_gen, s_gatt, polling, keys, phase, broken,
                   left>>
\* The callback has no generation.  A code is passed on when it is new and not
\* zero: that a key went up is never heard from a poll.
ReadCode == IF Head(att).at = key THEN key ELSE 0
IsReadable == Head(att).at # 0
PollFrame == UNCHANGED <<enabled, s_gatt, polling, history, key, missed, left>>
             /\ UNCHANGED <<layout, connected, s_disc_gen, pcb>>
OnPollRead ==
    /\ Answered("poll") /\ att' = Tail(att)
    /\ s_poll' = IF IsReadable THEN [s_poll EXCEPT !.last_val[Idx] = ReadCode] ELSE s_poll
    /\ IF IsReadable /\ ReadCode # s_poll.last_val[Idx] /\ ReadCode # 0 THEN heard' = ReadCode ELSE UNCHANGED heard
    /\ PollFrame

-----------------------------------------------------------------------------
(* Notifications.  A keyboard notifies a report that is enabled; the code        *)
(* passes on what comes from the reports it lists.                             *)

Subs == ToSet(s_gatt.subs)
Notified(v) == connected /\ CccdsOf(v) \cap enabled # {}
Hears(v) == Notified(v) /\ v \in Subs
KeyFrame == UNCHANGED <<layout, enabled, connected, s_disc_gen, s_gatt, s_poll, polling, pcb,
                        att, history>>
KeyDown(v) ==
    /\ key = 0 /\ Spend("keys")
    /\ key' = v /\ heard' = IF Hears(v) THEN v ELSE heard
    /\ UNCHANGED missed /\ KeyFrame
KeyUp ==
    /\ key # 0 /\ key' = 0
    /\ heard' = IF Hears(key) THEN 0 ELSE heard
    /\ missed' = (heard' # 0 /\ (\/ missed \/ ~Complete \/ key \in Misled
                                \/ key \in Polled \/ ~Notified(key)))
    /\ UNCHANGED left /\ KeyFrame

-----------------------------------------------------------------------------
GattTask == \/ OnDiscSvcs \/ OnDiscChr \/ OnDiscChrsDone \/ OnDiscDsc \/ OnDiscDscsDone
            \/ DiscoveryFails \/ OnPollRead
            \/ \E ok \in BOOLEAN : OnReadReportRef(ok) \/ OnWriteCccd(ok)
GattNext == \/ Connect \/ StartDiscovery \/ Disconnect \/ GattTask \/ PollTurn \/ PollRead
            \/ KeyUp \/ \E v \in Inputs : KeyDown(v)
GattSpec == GattInit /\ [][GattNext]_gattVars
\* The keyboard answers, and the tasks run.
GattFairSpec == GattSpec /\ WF_gattVars(GattTask) /\ WF_gattVars(PollRead)

-----------------------------------------------------------------------------
(* Properties.                                                               *)

\* The lists stay in their arrays, and so does every index: the one that the timer
\* computed from a list that was cleared meanwhile, and those that answers bring back.
GattTypeOK ==
    /\ connected \in BOOLEAN /\ polling \in BOOLEAN /\ phase \in {"none", "going", "ready"}
    /\ Len(att) <= MAX_PROCS
    /\ Len(s_gatt.reports) <= MAX_REPORTS /\ Len(s_gatt.subs) <= MAX_REPORTS
    /\ Len(s_poll.handles) <= MAX_POLL_HANDLES /\ s_poll.current \in 0 .. MAX_POLL_HANDLES - 1
    /\ \A p \in ToSet(att) :
          /\ p.op = "poll" => p.idx \in 1 .. MAX_POLL_HANDLES
          /\ p.op \in {"dscs", "ref", "write"} /\ p.gen = s_disc_gen
                => p.idx \in 1 .. Len(s_gatt.reports)

\* When the code calls the keyboard ready, each of its input reports is subscribed
\* or polled, whichever requests the keyboard refused, unless the stack had no room
\* for a request, a search failed, a list is full, or the report has no Report
\* Reference and is taken for the output that follows.
NoneForgotten == Complete => Inputs \subseteq Subs \cup Polled \cup Misled

\* The stack may have no room for some requests of an undisturbed discovery, but
\* never for one that a report of these keyboards depends on.
UndisturbedListens ==
    phase = "ready" /\ ~disturbed /\ ~Full => Inputs \subseteq Subs \cup Polled \cup Misled

\* A key that was heard going down is heard going up, unless it went up before a
\* discovery was complete (after a loss of the link, or a second encryption), or
\* its report is polled, was never enabled, or has no Report Reference.
KeyUpHeard == heard = key \/ heard = 0 \/ missed

\* A discovery that began ends, unless it was disturbed and a request found no room
\* or a search failed, which nobody notices.
Discovers == phase = "going" ~> phase # "going" \/ (broken /\ disturbed)
=============================================================================
