------------------------------ MODULE Metering ------------------------------
(***************************************************************************)
(* The metering spool, crates/marketplace-metering: processes append usage *)
(* events to a JSONL file, and pzdr-metering-payload reads it and builds   *)
(* one BatchMeterUsage payload.                                            *)
(*                                                                         *)
(* to_writer serialises an event straight to a file opened for append, and *)
(* each token is a write call of its own: a brace, a quote, what is        *)
(* between two quotes, a number, a colon, a comma, the newline.  Nothing   *)
(* keeps the calls of two writers apart, and a writer may die between two  *)
(* of its own.  The file is the sequence of these writes.                  *)
(*                                                                         *)
(* What a string holds is opaque, but is no JSON outside of quotes and is  *)
(* one write (nothing in it is escaped).  A write that is cut short is a   *)
(* write and then Fail, or Fail.                                           *)
(***************************************************************************)
EXTENDS Integers, Sequences, SequencesExt

CONSTANTS
    Writers,        \* processes that call append_event_jsonl
    Inputs,         \* what they meter: MarketplaceUsageInput
    ProductArgs,    \* product codes given to pzdr-metering-payload
    FieldKinds,     \* the type of each field of an event, "string" or "number"
    MaxRecords,     \* 25, the limit of BatchMeterUsage
    MaxAppends      \* bound on the appends started

NumFields == Len(FieldKinds)

ASSUME MeteringAssumption ==
    /\ FieldKinds \in Seq({"string", "number"}) /\ FieldKinds # <<>>
    /\ MaxRecords \in Nat /\ MaxAppends \in Nat
    /\ \A in \in Inputs : /\ in.quantity \in Nat
                         /\ in.scope \in Seq(Seq(STRING)) /\ Len(in.scope) = 3

VARIABLES
    file,       \* the spool
    job,        \* job[w]: the event w is writing, as its n-th append, and the next write
    appended,   \* events whose append returned Ok (history)
    started,    \* appends started so far; the first creates the file
    payload     \* what the last run of pzdr-metering-payload produced

vars == <<file, job, appended, started, payload>>

NoJob == [event |-> <<>>, append |-> 0, field |-> 0, step |-> "idle"]

Outcome(kind, product_code, records) ==
    [kind |-> kind, product_code |-> product_code, records |-> records]

Refused(kind) == Outcome(kind, <<>>, <<>>)

-----------------------------------------------------------------------------
(* Events.  scope is <<product_code, request_id, usage>>, each a sequence of *)
(* characters; usage stands for the five identifying strings that reach the *)
(* payload (customer, dimension, tenant_id, proof_id, receipt_root_hex).    *)

require(value) == \E i \in 1..Len(value) : value[i] # " "

(* Mutant: the parts are simply joined. *)
stable_idempotency_key_joined(parts) == FlattenSeq(parts)

(* SHA-256 is injective: the key is the string that is hashed, each part    *)
(* preceded by its length.                                                  *)
stable_idempotency_key(parts) ==
    FlattenSeq([i \in 1..Len(parts) |-> <<Len(parts[i])>> \o parts[i]])

(* MarketplaceUsageEvent::new: Some event, or None when a field is missing  *)
(* or the quantity is 0.                                                    *)
NewEvent(in) ==
    IF (\A i \in 1..Len(in.scope) : require(in.scope[i])) /\ in.quantity # 0
    THEN << [scope |-> in.scope, quantity |-> in.quantity, timestamp |-> in.timestamp,
             idempotency_key |-> stable_idempotency_key(in.scope)] >>
    ELSE <<>>

(* MarketplaceUsageEvent::inference: one unit of a fixed dimension. *)
inference(scope, timestamp) == [scope |-> scope, quantity |-> 1, timestamp |-> timestamp]

Init ==
    /\ file = <<>>
    /\ job = [w \in Writers |-> NoJob]
    /\ appended = <<>>
    /\ started = 0
    /\ payload = Refused("none")

(* An event is built and the file opened for append. *)
Start(w, in) ==
    /\ job[w].step = "idle" /\ started < MaxAppends
    /\ NewEvent(in) # <<>>
    /\ started' = started + 1
    /\ job' = [job EXCEPT ![w] =
                  [event |-> NewEvent(in), append |-> started + 1, field |-> 1, step |-> "open"]]
    /\ UNCHANGED <<file, appended, payload>>

(* One write: the job's step and field, and whose it is. *)
Token(j) == [step |-> j.step, field |-> j.field, event |-> j.event[1], append |-> j.append]

(* What to_writer writes after that. *)
Advance(j) ==
    CASE j.step \in {"open", "comma"} -> [j EXCEPT !.step = "key_begin"]
      [] j.step = "key_begin"         -> [j EXCEPT !.step = "key"]
      [] j.step = "key"               -> [j EXCEPT !.step = "key_end"]
      [] j.step = "key_end"           -> [j EXCEPT !.step = "colon"]
      [] j.step = "colon"             ->
            [j EXCEPT !.step = IF FieldKinds[j.field] = "string" THEN "value_begin" ELSE "number"]
      [] j.step = "value_begin"       -> [j EXCEPT !.step = "value"]
      [] j.step = "value"             -> [j EXCEPT !.step = "value_end"]
      [] j.step \in {"value_end", "number"} ->
            IF j.field < NumFields THEN [j EXCEPT !.step = "comma", !.field = @ + 1]
            ELSE [j EXCEPT !.step = "close"]
      [] j.step = "close"             -> [j EXCEPT !.step = "newline"]

WriteToken(w) ==
    /\ job[w].step \notin {"idle", "newline"}
    /\ file' = Append(file, Token(job[w]))
    /\ job' = [job EXCEPT ![w] = Advance(@)]
    /\ UNCHANGED <<appended, started, payload>>

WriteNewline(w) ==
    /\ job[w].step = "newline"
    /\ file' = Append(file, Token(job[w]))
    /\ job' = [job EXCEPT ![w] = NoJob]
    /\ appended' = Append(appended, job[w].event[1])
    /\ UNCHANGED <<started, payload>>

(* The writer dies, or a write fails and the append returns Err. *)
Fail(w) ==
    /\ job[w].step # "idle"
    /\ job' = [job EXCEPT ![w] = NoJob]
    /\ UNCHANGED <<file, appended, started, payload>>

-----------------------------------------------------------------------------
(* The reader.  The file only grows, so what it has read when it meets the  *)
(* end is the file at that moment.  It sees bytes, hence of a token only    *)
(* its glyph, and of a name or a value what it says.                        *)

Glyph(t) ==
    IF t.step \in {"key_begin", "key_end", "value_begin", "value_end"} THEN "quote" ELSE t.step

(* A line being parsed by serde_json::from_str: what it may go on with, how *)
(* many objects are open, the field whose value is next (0 if an event has  *)
(* no such field), what the last string holds, and the fields read, each    *)
(* <<>> or <<value>>.                                                       *)
Line(phase) ==
    [phase |-> phase, depth |-> 0, field |-> 0, got |-> <<>>,
     fields |-> [k \in 1..NumFields |-> <<>>]]

(* Unknown fields are skipped with whatever value they have; a field twice, *)
(* or one with a value of the wrong type, is an error.                      *)
KeyOf(l) ==
    IF l.depth = 1 /\ Len(l.got) = 1 /\ l.got[1].step = "key" THEN l.got[1].field ELSE 0

EndKey(l) ==
    IF KeyOf(l) # 0 /\ l.fields[KeyOf(l)] # <<>> THEN Line("refused")
    ELSE [l EXCEPT !.phase = "colon", !.field = KeyOf(l)]

Wants(l, kind) == l.field = 0 \/ FieldKinds[l.field] = kind

Value(l, phase, content) ==
    [l EXCEPT !.phase = phase, !.got = content,
              !.fields = IF l.field = 0 THEN @ ELSE [@ EXCEPT ![l.field] = <<content>>]]

parse(l, t) ==
    LET g == Glyph(t)
    IN  CASE l.phase \in {"key", "string"} /\ g # "quote"  -> [l EXCEPT !.got = Append(@, t)]
          [] l.phase = "key" /\ g = "quote"               -> EndKey(l)
          [] l.phase = "string" /\ g = "quote"            -> Value(l, "next", l.got)
          [] l.phase = "blank" /\ g = "open"              -> [l EXCEPT !.phase = "first", !.depth = 1]
          [] l.phase \in {"first", "more"} /\ g = "quote" -> [l EXCEPT !.phase = "key", !.got = <<>>]
          [] l.phase = "colon" /\ g = "colon"             -> [l EXCEPT !.phase = "value"]
          [] l.phase = "value" /\ g = "quote" /\ Wants(l, "string") ->
                [l EXCEPT !.phase = "string", !.got = <<>>]
          [] l.phase = "value" /\ g = "number" /\ Wants(l, "number") -> Value(l, "digits", <<t>>)
          [] l.phase = "digits" /\ g = "number"           -> Value(l, "digits", Append(l.got, t))
          [] l.phase = "value" /\ g = "open" /\ l.field = 0 ->
                [l EXCEPT !.phase = "first", !.depth = @ + 1]
          [] l.phase \in {"next", "digits"} /\ g = "comma" -> [l EXCEPT !.phase = "more"]
          [] l.phase \in {"first", "next", "digits"} /\ g = "close" ->
                [l EXCEPT !.phase = IF l.depth = 1 THEN "whole" ELSE "next", !.depth = @ - 1]
          [] OTHER -> Line("refused")

(* Mutant: lines that do not parse are skipped. *)
end_line_skipping(acc) ==
    IF acc.line.phase = "whole" /\ \A k \in 1..NumFields : acc.line.fields[k] # <<>>
    THEN [acc EXCEPT !.events = Append(@, [k \in 1..NumFields |-> acc.line.fields[k][1]]),
                     !.line = Line("blank")]
    ELSE [acc EXCEPT !.line = Line("blank")]

(* The end of a line: blank lines are passed over, the first error ends the *)
(* reading.                                                                 *)
end_line(acc) ==
    IF acc.line.phase = "blank" THEN acc
    ELSE IF acc.line.phase = "whole" /\ \A k \in 1..NumFields : acc.line.fields[k] # <<>>
    THEN [acc EXCEPT !.events = Append(@, [k \in 1..NumFields |-> acc.line.fields[k][1]]),
                     !.line = Line("blank")]
    ELSE [acc EXCEPT !.failed = TRUE, !.line = Line("blank")]

take(acc, t) ==
    IF t.step = "newline" THEN end_line(acc) ELSE [acc EXCEPT !.line = parse(@, t)]

scan(f) == FoldLeft(take, [events |-> <<>>, failed |-> FALSE, line |-> Line("blank")], f)

(* Some(events), or None when a line does not parse.  A last line needs no  *)
(* newline.                                                                 *)
read_events_jsonl(f) ==
    LET all == end_line(scan(f)) IN IF all.failed THEN <<>> ELSE <<all.events>>

(* What of an event reaches the payload: neither its product code nor its   *)
(* request id nor its idempotency key.                                      *)
BilledField(token) ==
    [step |-> token.step, usage |-> token.event.scope[3], quantity |-> token.event.quantity,
     timestamp |-> token.event.timestamp]

UsageRecord(event) ==
    [k \in 1..NumFields |-> [i \in 1..Len(event[k]) |-> BilledField(event[k][i])]]

(* Mutant: takes the first records and drops the rest. *)
batch_truncated(product_code, events) ==
    Outcome("payload", product_code,
            [i \in 1..(IF Len(events) > MaxRecords THEN MaxRecords ELSE Len(events)) |->
                UsageRecord(events[i])])

batch_meter_usage_payload(product_code, events) ==
    IF ~require(product_code) THEN Refused("missing")
    ELSE IF Len(events) > MaxRecords THEN Refused("too_many_records")
    ELSE Outcome("payload", product_code, [i \in 1..Len(events) |-> UsageRecord(events[i])])

(* pzdr-metering-payload <product-code> <events.jsonl> *)
BuildPayload(product_code) ==
    /\ payload' = LET events == read_events_jsonl(file)
                  IN  IF started = 0 THEN Refused("io")
                      ELSE IF events = <<>> THEN Refused("json")
                      ELSE batch_meter_usage_payload(product_code, events[1])
    /\ UNCHANGED <<file, job, appended, started>>

Next ==
    \/ \E product_code \in ProductArgs : BuildPayload(product_code)
    \/ \E w \in Writers : \/ \E in \in Inputs : Start(w, in)
                          \/ WriteToken(w) \/ WriteNewline(w) \/ Fail(w)

Spec == Init /\ [][Next]_vars

-----------------------------------------------------------------------------
(* Properties *)

(* Between the two quotes of a string, its key or value and nothing else of *)
(* that append, the opening brace of another append was written.            *)
BraceInString(f) ==
    \E j \in 1..Len(f) :
        /\ f[j].step = "open"
        /\ \E i \in 1..(j - 1) :
              /\ f[i].step \in {"key_begin", "value_begin"}
              /\ \E l \in (j + 1)..Len(f) :
                    /\ f[l].append = f[i].append /\ f[l].field = f[i].field
                    /\ f[l].step = IF f[i].step = "key_begin" THEN "key_end" ELSE "value_end"

(* Each field of the record is what that event wrote there, and nothing     *)
(* else.                                                                    *)
Bills(record, event) ==
    \A k \in 1..NumFields :
        Len(record[k]) = 1 /\ record[k][1].event = event /\ record[k][1].field = k

(* What a reader should find: the events whose append returned Ok, and one   *)
(* more when the last write closed it and only its newline is missing.      *)
Due ==
    IF file # <<>> /\ Last(file).step = "close" THEN Append(appended, Last(file).event)
    ELSE appended

(* However the writes of several writers interleave, and whoever dies       *)
(* between two of them, a reader that gets a payload bills exactly the      *)
(* events that are due, in that order, each with its own fields; with one   *)
(* exception: where one writer's opening brace came to lie inside another's *)
(* string, which nothing in append_event_jsonl prevents.                    *)
BillsWhatWasAppended ==
    LET events == read_events_jsonl(file)
    IN  events # <<>> /\ ~BraceInString(file) =>
            /\ Len(events[1]) = Len(Due)
            /\ \A i \in 1..Len(Due) : Bills(events[1][i], Due[i])

(* A payload holds no more than BatchMeterUsage takes, at most one record   *)
(* beyond the acknowledged events, and none less, but for the same          *)
(* exception: a spool over the limit is refused, never truncated.           *)
PayloadIsWhole ==
    [][payload' # payload /\ payload'.kind = "payload" =>
          /\ Len(payload'.records) <= MaxRecords
          /\ Len(payload'.records) <= Len(appended) + 1
          /\ Len(payload'.records) >= Len(appended) \/ BraceInString(file)]_vars

(* Two events in the spool carry the same idempotency key exactly when they *)
(* are the same usage: the length prefix keeps the parts apart, and a       *)
(* retry at another time keeps the key.                                     *)
KeysIdentifyUsage ==
    \A i, j \in 1..Len(appended) :
        appended[i].idempotency_key = appended[j].idempotency_key
            <=> appended[i].scope = appended[j].scope

Usages(record) == UNION {{record[k][i].usage : i \in 1..Len(record[k])} : k \in 1..NumFields}

(* The crate "builds validated, idempotent payloads" (lib.rs:3): however    *)
(* often a usage is appended, a payload bills it once.  Nothing compares    *)
(* idempotency keys, and the payload does not carry them.                   *)
PayloadIdempotent ==
    \A i, j \in 1..Len(payload.records) :
        Usages(payload.records[i]) = Usages(payload.records[j]) => i = j
=============================================================================
