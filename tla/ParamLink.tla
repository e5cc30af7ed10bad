----------------------------- MODULE ParamLink -----------------------------
(***************************************************************************)
(* Parameters of one vehicle: the handlers of /api/vehicles/{i}/params,    *)
(* params/refresh and the write of airframe (fleet-cli/src/api.rs), the    *)
(* setup view (setup.rs), and the link's parameter store and its one       *)
(* pending write (fleet-mavlink/src/link.rs), over sockets that lose       *)
(* frames.  The airframe's gate and restart are in FleetManager.           *)
(*                                                                         *)
(* The vehicle is PX4's side of the protocol as link.rs relies on it: it   *)
(* takes a PARAM_SET of the parameter's own type and echoes PARAM_VALUE,   *)
(* ignores any other, and answers PARAM_REQUEST_LIST with one PARAM_VALUE  *)
(* after the other.                                                        *)
(***************************************************************************)
EXTENDS Naturals, Sequences, FiniteSets, SequencesExt

CONSTANTS Callers,   \* requests (bound), numbered as they come in
          Order,     \* the vehicle's parameters as it lists them
          TypeOf,    \* their types
          Airframe,  \* SYS_AUTOSTART
          Written,   \* values the callers write; 0 is what all parameters are first
          Attempts,  \* cmd_attempts
          Lists,     \* parameter downloads (bound)
          Room,      \* frames a socket holds: it drops what does not fit (bound)
          Nothing,
          None

ASSUME ParamAssumption ==
  /\ Callers \in Nat /\ Attempts \in Nat \ {0} /\ Lists \in Nat /\ Room \in Nat
  /\ Order \in Seq(Range(Order))
  /\ 0 \notin Written /\ Nothing \notin Written \cup {0}

VARIABLES
  value,    \* the vehicle's parameters
  dump,     \* what its listing has still to send
  taken,    \* the writes it has taken
  up, down, \* frames under way in either direction
  store,    \* ParamStore.params
  total, state, recent, asked,
            \* ParamStore.total, state, whether last_value_ms is set and at most 3 s
            \* old, and how often the list was requested
  pending,  \* pending_param
  call,     \* what each caller asks for
  where,    \* where its handler is
  answer,   \* what it has been told
  clean     \* callers that no download has interfered with

vehicle   == <<value, dump, taken>>
cache     == <<store, total, state, recent, asked>>
callers   == <<call, where, answer, clean>>
paramVars == <<vehicle, up, down, cache, pending, callers>>

Caller   == 1..Callers
Param    == Range(Order)
Put(ch, f) == IF Len(ch) < Room THEN Append(ch, f) ELSE ch

ParamInit ==
  /\ value = [p \in Param |-> 0] /\ dump = <<>> /\ taken = {}
  /\ up = <<>> /\ down = <<>>
  /\ store = [p \in {} |-> 0] /\ total = 0 /\ state = "Idle" /\ recent = FALSE /\ asked = 0
  /\ pending = Nothing
  /\ call = [c \in Caller |-> Nothing] /\ where = [c \in Caller |-> "new"]
  /\ answer = [c \in Caller |-> Nothing]
  /\ clean = Caller

-----------------------------------------------------------------------------
(* The handlers.                                                           *)

\* The explicit type, the type last seen, or REAL32.
WireType(p) == IF p \in DOMAIN store THEN store[p].type ELSE 9

Told(c, v) == answer' = [answer EXCEPT ![c] = v]
Goes(c, l) == where' = [where EXCEPT ![c] = l]

\* Any write in the slot hears None; its caller goes on at once.
Displace ==
  IF pending = Nothing THEN UNCHANGED answer ELSE Told(pending.caller, None)

\* vehicle_params_post and set_param_typed, or the write of the airframe
\* handler, which is always INT32; the link takes it up.
Write(c) ==
  /\ where[c] = "new" /\ \A d \in 1..(c - 1) : where[d] # "new"
  /\ \E p \in Param, v \in Written, airframe \in BOOLEAN :
       LET t == IF airframe THEN 6 ELSE WireType(p) IN
       /\ airframe => p = Airframe
       /\ call' = [call EXCEPT ![c] = [param |-> p, value |-> v, airframe |-> airframe]]
       /\ pending' = [caller |-> c, param |-> p, value |-> v, type |-> t, sent |-> 1]
       /\ up' = Put(up, [set |-> p, value |-> v, type |-> t, by |-> c])
       /\ clean' = IF dump # <<>> \/ (\E k \in DOMAIN up : "list" \in DOMAIN up[k]) \/ down # <<>>
                   THEN clean \ {c} ELSE clean
  /\ Goes(c, "sent") /\ Displace
  /\ UNCHANGED <<vehicle, down, cache>>

\* vehicle_params_refresh_post and mark_requested.
Refresh ==
  /\ asked < Lists /\ asked' = asked + 1
  /\ up' = Put(up, [list |-> TRUE])
  /\ state' = "Downloading"
  /\ clean' = clean \ {c \in Caller : where[c] = "sent"}
  /\ UNCHANGED <<vehicle, down, store, total, recent, pending, call, where, answer>>

Confirmed(c) == answer[c] \notin {Nothing, None}
Return(c) ==
  /\ where[c] = "sent" /\ answer[c] # Nothing
  /\ Goes(c, "done")
  /\ UNCHANGED <<vehicle, up, down, cache, pending, call, answer, clean>>

\* 2.6 s are over before the link has answered.
WriteGivesUp(c) ==
  /\ where[c] = "sent" /\ answer[c] = Nothing
  /\ Told(c, None) /\ Goes(c, "done")
  /\ UNCHANGED <<vehicle, up, down, cache, pending, call, clean>>

-----------------------------------------------------------------------------
(* The link.                                                               *)

MayResend(n) == n < Attempts

\* The write is sent again, or the ladder is over.
RetryWrite ==
  /\ pending # Nothing
  /\ IF MayResend(pending.sent)
     THEN /\ up' = Put(up, [set |-> pending.param, value |-> pending.value,
                               type |-> pending.type, by |-> pending.caller])
          /\ pending' = [pending EXCEPT !.sent = @ + 1]
          /\ UNCHANGED answer
     ELSE /\ pending' = Nothing /\ UNCHANGED up
          /\ IF where[pending.caller] = "sent" THEN Told(pending.caller, None)
                                               ELSE UNCHANGED answer
  /\ UNCHANGED <<vehicle, down, cache, call, where, clean>>

\* Mutant: the store is complete when it has all but one.
AllButOne(params) == Cardinality(params) + 1 >= Len(Order)
Covers(params) == Cardinality(params) >= Len(Order)

\* Mutant: any echo confirms the write.
AnyEcho(f) == pending # Nothing
Ours(f) == pending # Nothing /\ pending.param = f.param

\* A PARAM_VALUE: the store takes it in, then it may confirm the write.
GetValue ==
  /\ down # <<>> /\ down' = Tail(down)
  /\ LET f    == Head(down)
         seen == DOMAIN store \cup {f.param} IN
     /\ store' = [p \in seen |-> IF p = f.param THEN [type |-> f.type, value |-> f.value]
                                                ELSE store[p]]
     /\ total' = Len(Order) /\ recent' = TRUE
     /\ state' = IF state \in {"Downloading", "Stalled"} /\ Covers(seen) THEN "Complete" ELSE state
     /\ IF Ours(f)
        THEN /\ pending' = Nothing
             /\ IF where[pending.caller] = "sent" THEN Told(pending.caller, f.value)
                                                  ELSE UNCHANGED answer
        ELSE UNCHANGED <<pending, answer>>
  /\ UNCHANGED <<vehicle, up, asked, call, where, clean>>

\* The watchdog: no value for 3 s.
Watchdog ==
  /\ state = "Downloading" /\ ~recent
  /\ state' = "Stalled"
  /\ UNCHANGED <<vehicle, up, down, store, total, recent, asked, pending, callers>>

\* Mutant: a download that has begun never counts as quiet.
StaysRecent == FALSE
GoesQuiet == recent
ThreeSeconds ==
  /\ GoesQuiet /\ recent' = FALSE
  /\ UNCHANGED <<vehicle, up, down, store, total, state, asked, pending, callers>>

-----------------------------------------------------------------------------
(* Sockets and vehicle.                                                    *)

LoseUp ==
  /\ up # <<>> /\ up' = Tail(up)
  /\ UNCHANGED <<vehicle, down, cache, pending, callers>>
LoseDown ==
  /\ down # <<>> /\ down' = Tail(down)
  /\ UNCHANGED <<vehicle, up, cache, pending, callers>>

Echo(p, v) == down' = Put(down, [param |-> p, type |-> TypeOf[p], value |-> v])

TakeSet ==
  /\ up # <<>> /\ "set" \in DOMAIN Head(up) /\ up' = Tail(up)
  /\ LET f == Head(up) IN
     IF f.type = TypeOf[f.set]
     THEN /\ value' = [value EXCEPT ![f.set] = f.value]
          /\ taken' = taken \cup {f.by}
          /\ Echo(f.set, f.value)
     ELSE UNCHANGED <<value, taken, down>>
  /\ UNCHANGED <<dump, cache, pending, callers>>

TakeList ==
  /\ up # <<>> /\ "list" \in DOMAIN Head(up) /\ up' = Tail(up)
  /\ dump' = Order
  /\ UNCHANGED <<value, taken, down, cache, pending, callers>>

SendNext ==
  /\ dump # <<>> /\ dump' = Tail(dump)
  /\ Echo(Head(dump), value[Head(dump)])
  /\ UNCHANGED <<value, taken, up, cache, pending, callers>>

LinkSteps == RetryWrite \/ GetValue \/ Watchdog \/ ThreeSeconds
ParamNext ==
  \/ \E c \in Caller : Write(c) \/ Return(c) \/ WriteGivesUp(c)
  \/ Refresh \/ LinkSteps
  \/ LoseUp \/ LoseDown \/ TakeSet \/ TakeList \/ SendNext

ParamSpec == ParamInit /\ [][ParamNext]_paramVars

-----------------------------------------------------------------------------
(* Properties.                                                             *)

\* api.rs, "The echo round-trip is the source of truth: the returned value is
\* what the vehicle actually took": a caller that no download has interfered with
\* is confirmed with the value it wrote only if the vehicle has taken its write or
\* one of the same value.
ConfirmedIsTaken ==
  \A c \in clean : Confirmed(c) =>
    \E d \in taken : call[d].param = call[c].param /\ call[d].value = answer[c]

\* setup.rs, "the view is always the live vehicle's own configuration": once the
\* download is complete the view has an airframe, calibration flags, and of every
\* parameter its own type and a value the vehicle has been given.
Shown(p) == IF p \in DOMAIN store THEN store[p].value ELSE Nothing
CompleteViewIsWhole ==
  state = "Complete" => \A p \in Param :
    /\ Shown(p) # Nothing /\ store[p].type = TypeOf[p]
    /\ Shown(p) \in {0} \cup {call[c].value : c \in {d \in taken : call[d].param = p}}

\* link.rs, refresh_staleness: a download that goes quiet is reported.
DownloadSettles == state = "Downloading" ~> state # "Downloading"

\* link.rs, "completion: unique ids cover the reported total": what is shown once
\* all is quiet after a completed download.
CompleteIsCurrent ==
  state = "Complete" /\ up = <<>> /\ down = <<>> /\ dump = <<>> =>
    \A p \in Param : Shown(p) = value[p]

\* api.rs, "the returned value is what the vehicle actually took".
EchoIsTheWrite == \A c \in Caller : Confirmed(c) => answer[c] = call[c].value \/ c \in taken

=============================================================================
