--------------------------- MODULE ScriptingProofs ---------------------------
(***************************************************************************)
(* For any number of scripts, headers, URLs and encodings, what the chain  *)
(* of scripts and the interceptor promise about one flow; and for any      *)
(* number of files, MCP requests and operations, in any interleaving and   *)
(* with any failures, what the managers promise about the script files and *)
(* the engine.                                                             *)
(*                                                                         *)
(* The argument for a flow: everything in the context was written by a     *)
(* script before the one that runs next (Past), and the failed ones are    *)
(* among those before it; a script writes only under its own number, and   *)
(* one that fails leaves nothing but the fields that its read-back reached *)
(* before it failed (halves).                                              *)
(*                                                                         *)
(* The argument for the files has three parts beside the types (InRange).  *)
(* OwnIDs: an ID, wherever it is (in a file, in a source about to be       *)
(* written back, in a scan's entries, told to a client), belongs to one    *)
(* file, since every new one is above them all; this holds whatever        *)
(* overlaps.  Firm, while no two managers have been writing at once: a     *)
(* file that is being written has no other writer, and what was told of a  *)
(* file is on it or the file is lost (Keeps).  InStep, while nobody was    *)
(* disturbed: at most one manager is midway, a load starts from an empty   *)
(* engine and has found what is enabled among the files that it passed,    *)
(* and without a load under way or due the engine has what is enabled, but *)
(* for a file that is just being written again with the ID it lacked       *)
(* (Current).  A step of one manager leaves what the others are at alone   *)
(* (Elsewhere, OthersStay); most steps change no file (Aside), and those   *)
(* that do change one (FirmStep, DueStep).                                 *)
(***************************************************************************)
EXTENDS Scripting, ScriptFiles, OrderingProofs

ScTypes ==
  /\ next \in 1 .. N + 1
  /\ hdr \in [Headers -> Values]
  /\ from \in [Tagged -> 0 .. N]
  /\ body \in Bodies /\ resp \in Responses
  /\ failed \subseteq Scripts /\ halves \subseteq Scripts \X Everything
  /\ coded \in BOOLEAN
  /\ wire \in [by : 0 .. N, enc : Encodings \cup {"identity"},
               layers : Seq(Encodings \cup {"identity"})]

\* What is in the context comes from scripts that have run; so do the failures.
Past ==
  /\ phase \in {"request", "response"} =>
       /\ body.by < next /\ \A h \in Headers : hdr[h].by < next
       /\ \A f \in Tagged : from[f] < next
       /\ \A k \in failed : k < next
       /\ \A p \in halves : p[1] < next
  /\ resp.by < next /\ resp.status < next /\ resp.body < next /\ resp.hdrs < next

\* Only a decoded body is JSON, and it goes over the wire only encoded again.
Decoded ==
  /\ phase \in {"request", "response"} /\ body.json => coded
  /\ WireBody

ScInv == ScTypes /\ Past /\ Decoded /\ FailedLeaveNoTrace

\* The request as the client sent it, in the encoding it names; the reply as it comes from
\* upstream, an encoding the interceptor knows undone.
AsItCame ==
  /\ phase = "request" => wire.by = 0 /\ Truthful
  /\ phase = "response" =>
       /\ wire.by = 0
       /\ wire.layers = IF wire.enc \in Encodings \ Supported THEN <<wire.enc>> ELSE << >>

-----------------------------------------------------------------------------

\* A flow starts with an untouched context.
LEMMA ScInitInv == SCInit => ScInv
<1> SUFFICES ASSUME SCInit PROVE ScInv
  OBVIOUS
<1>1. N \in Nat
  BY ScriptingAssumption
<1>2. hdr \in [Headers -> Values] /\ \A h \in Headers : hdr[h].by = 0
  BY <1>1 DEF SCInit, Values
<1>3. coded \in BOOLEAN /\ body = [by |-> 0, json |-> coded]
  BY DEF SCInit
<1>4. body \in Bodies /\ body.by = 0 /\ body.json = coded
  BY <1>1, <1>3 DEF Bodies
<1>5. from \in [Tagged -> 0 .. N] /\ \A f \in Tagged : from[f] = 0
  BY <1>1 DEF SCInit, Untouched
<1>6. wire \in [by : 0 .. N, enc : Encodings \cup {"identity"},
                layers : Seq(Encodings \cup {"identity"})]
  <2>1. PICK enc \in Encodings \cup {"identity"} : wire = Message(0, enc, LayersOf(enc))
    BY DEF SCInit
  <2>2. LayersOf(enc) \in Seq(Encodings \cup {"identity"})
    <3>1. << >> \in Seq(Encodings \cup {"identity"}) /\ <<enc>> \in Seq(Encodings \cup {"identity"})
      OBVIOUS
    <3> QED
      BY <3>1 DEF LayersOf
  <2> QED
    BY <1>1, <2>1, <2>2 DEF Message
<1>7. ScTypes
  BY <1>1, <1>2, <1>3, <1>4, <1>5, <1>6 DEF SCInit, ScTypes, Responses, NoResponse
<1>8. Past /\ FailedLeaveNoTrace
  BY <1>2, <1>4, <1>5 DEF SCInit, Past, FailedLeaveNoTrace, NoResponse
<1>9. Decoded
  BY <1>4 DEF SCInit, Decoded, WireBody
<1> QED
  BY <1>7, <1>8, <1>9 DEF ScInv

\* No field is read back twice.
LEMMA OrderIsOnce ==
  /\ \A f, g \in Everything : ~ (ReadBefore(f, g) /\ ReadBefore(g, f))
  /\ \A f \in Everything : ~ ReadBefore(f, "response") /\ ~ ReadBefore("headers", f)
  /\ \A f \in Everything : ReadBefore("response", f) => f # "response"
  /\ {"response", "body", "headers"} \cup Tagged = Everything
<1>1. DOMAIN Order = 1 .. 7 /\ \A i, j \in 1 .. 7 : Order[i] = Order[j] => i = j
  BY DEF Order
<1>2. Order[1] = "response" /\ Order[7] = "headers"
  BY DEF Order
<1>3. Everything = {"response", "blocked", "method", "url", "status", "body", "headers"}
  <2>1. Everything = {Order[i] : i \in 1 .. 7}
    BY <1>1 DEF Everything
  <2>2. 1 .. 7 = {1, 2, 3, 4, 5, 6, 7}
    OBVIOUS
  <2> QED
    BY <2>1, <2>2 DEF Order
<1>4. ASSUME NEW f \in Everything, NEW g \in Everything, ReadBefore(f, g), ReadBefore(g, f) PROVE FALSE
  <2>1. PICK i \in 1 .. 7, j \in 1 .. 7 : i < j /\ Order[i] = f /\ Order[j] = g
    BY <1>1, <1>4 DEF ReadBefore
  <2>2. PICK k \in 1 .. 7, l \in 1 .. 7 : k < l /\ Order[k] = g /\ Order[l] = f
    BY <1>1, <1>4 DEF ReadBefore
  <2>3. j = k /\ i = l
    BY <1>1, <2>1, <2>2
  <2> QED
    BY <2>1, <2>2, <2>3
<1>5. ASSUME NEW f \in Everything PROVE ~ ReadBefore(f, "response") /\ ~ ReadBefore("headers", f)
  <2>1. \A i, j \in 1 .. 7 : i < j => Order[j] # "response" /\ Order[i] # "headers"
    BY <1>1, <1>2
  <2> QED
    BY <1>1, <2>1 DEF ReadBefore
<1> QED
  BY <1>3, <1>4, <1>5 DEF Tagged

\* Everything in the context and in the answer is from a script that has run.
LEMMA PastOfAll ==
  ASSUME ScInv, phase \in {"request", "response"}, NEW f \in Everything, NEW k \in Of(f)
  PROVE  k \in Int /\ k < next
<1>1. N \in Nat /\ next \in Int /\ ScTypes /\ Past
  BY ScriptingAssumption DEF ScInv, ScTypes
<1>2. CASE f = "response"
  BY <1>1, <1>2 DEF Of, Past, ScTypes, Responses
<1>3. CASE f = "headers"
  BY <1>1, <1>3 DEF Of, Past, ScTypes, Values
<1>4. CASE f = "body"
  BY <1>1, <1>4 DEF Of, Past, ScTypes, Bodies
<1>5. CASE f \notin {"response", "headers", "body"}
  <2>1. f \in Tagged
    BY <1>5, OrderIsOnce
  <2> QED
    BY <1>1, <1>5, <2>1 DEF Of, Past, ScTypes
<1> QED
  BY <1>2, <1>3, <1>4, <1>5

\* The script that runs puts its own values into some fields.  If it fails they are none,
\* or none of those its failure spares.
LEMMA TraceKept ==
  ASSUME ScInv, phase \in {"request", "response"}, next \in 1 .. N,
         \A f \in Everything : Of(f)' \subseteq Of(f) \cup {next},
         \/ failed' = failed /\ halves' = halves
         \/ /\ failed' = failed \cup {next} /\ halves' = halves
            /\ \A f \in Everything : Of(f)' = Of(f)
         \/ /\ failed' = failed
            /\ \E at \in Everything :
                 /\ halves' = halves \cup {<<next, at>>}
                 /\ \A f \in Spared(at) : Of(f)' = Of(f)
  PROVE  FailedLeaveNoTrace'
<1>1. next \in Int /\ ScTypes /\ Past /\ FailedLeaveNoTrace
  BY DEF ScInv
<1>2. \A f \in Everything : next \notin Of(f)
  BY <1>1, PastOfAll
<1>3. \A k \in failed : k # next
  BY <1>1 DEF Past
<1>4. \A p \in halves : p[1] # next /\ p[2] \in Everything
  BY <1>1 DEF Past, ScTypes
<1>5. ASSUME NEW k \in failed', NEW f \in Everything PROVE k \notin Of(f)'
  <2>1. CASE k \in failed
    BY <1>1, <1>3, <2>1 DEF FailedLeaveNoTrace
  <2>2. CASE k \notin failed
    <3>1. k = next /\ Of(f)' = Of(f)
      BY <1>5, <2>2
    <3> QED
      BY <1>2, <3>1
  <2> QED
    BY <2>1, <2>2
<1>6. \A at \in Everything : Spared(at) \subseteq Everything
  BY OrderIsOnce DEF Spared
<1>7. ASSUME NEW p \in halves', NEW f \in Spared(p[2]) PROVE p[1] \notin Of(f)'
  <2>1. CASE p \in halves
    <3>1. f \in Everything /\ p[1] \notin Of(f) /\ p[1] # next
      BY <1>1, <1>4, <1>6, <2>1 DEF FailedLeaveNoTrace
    <3> QED
      BY <3>1
  <2>2. CASE p \notin halves
    <3>1. PICK at \in Everything : p = <<next, at>> /\ \A g \in Spared(at) : Of(g)' = Of(g)
      BY <1>7, <2>2
    <3>2. p[1] = next /\ f \in Everything /\ Of(f)' = Of(f)
      BY <1>6, <3>1
    <3> QED
      BY <1>2, <3>2
  <2> QED
    BY <2>1, <2>2
<1> QED
  BY <1>5, <1>7 DEF FailedLeaveNoTrace, Spared, Everything, ReadBefore

\* Reading back writes under the script's own number, and only the fields read.
LEMMA ReadsBackMeans ==
  ASSUME ScInv, next \in 1 .. N, NEW read, NEW done \in SUBSET Headers, ReadsBack(read, done)
  PROVE  /\ hdr' \in [Headers -> Values]
         /\ \A h \in Headers : hdr'[h].by \in {hdr[h].by, next}
         /\ done = {} => hdr' = hdr
         /\ body' \in Bodies /\ body'.json = body.json /\ body'.by \in {body.by, next}
         /\ "body" \notin read => body' = body
         /\ from' \in [Tagged -> 0 .. N]
         /\ \A f \in Tagged : from'[f] \in {from[f], next} /\ (f \notin read => from'[f] = from[f])
<1>1. N \in Nat /\ ScTypes
  BY ScriptingAssumption DEF ScInv
<1>2. PICK wrote \in SUBSET (read \cap {"method", "url", "status", "body"}),
           how \in [Headers -> {"kept", "set", "deleted"}] :
        /\ from' = [f \in Tagged |-> IF f \in wrote \cup (read \cap {"blocked"})
                                       THEN next ELSE from[f]]
        /\ body' = IF "body" \in wrote THEN [body EXCEPT !.by = next] ELSE body
        /\ hdr' = [h \in Headers |-> IF h \in done THEN ReadBack(h, how[h]) ELSE hdr[h]]
  BY DEF ReadsBack
<1>3. \A h \in Headers : ReadBack(h, how[h]) \in Values /\ ReadBack(h, how[h]).by \in {hdr[h].by, next}
  BY <1>1 DEF ReadBack, ScTypes, Values
<1>4. hdr' \in [Headers -> Values] /\ \A h \in Headers : hdr'[h].by \in {hdr[h].by, next}
  BY <1>1, <1>2, <1>3 DEF ScTypes
<1>5. done = {} => hdr' = hdr
  BY <1>1, <1>2 DEF ScTypes
<1>6. body' \in Bodies /\ body'.json = body.json /\ body'.by \in {body.by, next}
  <2>1. body' \in {body, [body EXCEPT !.by = next]} /\ body \in Bodies /\ next \in 0 .. N
    BY <1>1, <1>2 DEF ScTypes
  <2> QED
    BY <2>1 DEF Bodies
<1>7. "body" \notin read => body' = body
  BY <1>2
<1>8. /\ from' \in [Tagged -> 0 .. N]
      /\ \A f \in Tagged : from'[f] \in {from[f], next} /\ (f \notin read => from'[f] = from[f])
  BY <1>1, <1>2 DEF ScTypes
<1> QED
  BY <1>4, <1>5, <1>6, <1>7, <1>8

\* Every step of a script keeps the invariant.
LEMMA ScriptStepInv ==
  ASSUME ScInv, SkipScript \/ ScriptThrows \/ ScriptResponds \/ RespondFails \/ ScriptReturns
                  \/ ReadBackFails
  PROVE  ScInv'
<1>1. N \in Nat /\ ScTypes /\ Past /\ Decoded /\ FailedLeaveNoTrace
  BY ScriptingAssumption DEF ScInv
<1>2. /\ next \in 1 .. N /\ next' = next + 1 /\ phase \in {"request", "response"}
      /\ UNCHANGED <<phase, coded, wire>>
  BY <1>1 DEF ScTypes, SkipScript, ScriptThrows, ScriptResponds, RespondFails, ScriptReturns,
              ReadBackFails, Running, Advance
<1>3. /\ hdr' \in [Headers -> Values]
      /\ \A h \in Headers : hdr'[h].by \in {hdr[h].by, next}
      /\ body' \in Bodies /\ body'.json = body.json /\ body'.by \in {body.by, next}
      /\ from' \in [Tagged -> 0 .. N]
      /\ \A f \in Tagged : from'[f] \in {from[f], next}
  <2>1. CASE UNCHANGED <<hdr, body, from>>
    BY <1>1, <2>1 DEF ScTypes
  <2>2. CASE \E read : \E done \in SUBSET Headers : ReadsBack(read, done)
    BY <1>2, <2>2, ReadsBackMeans
  <2>3. \/ UNCHANGED <<hdr, body, from>>
        \/ \E read : \E done \in SUBSET Headers : ReadsBack(read, done)
    <3>1. CASE SkipScript \/ ScriptThrows \/ ScriptResponds \/ RespondFails
      BY <3>1 DEF SkipScript, ScriptThrows, ScriptResponds, RespondFails
    <3>2. CASE ScriptReturns
      BY <3>2 DEF ScriptReturns
    <3>3. CASE ReadBackFails
      BY <3>3 DEF ReadBackFails
    <3> QED
      BY <3>1, <3>2, <3>3
  <2> QED
    BY <2>1, <2>2, <2>3
<1>4. /\ resp' \in Responses
      /\ resp'.by \in {resp.by, next} /\ resp'.status \in {resp.status, next}
      /\ resp'.body \in {resp.body, next} /\ resp'.hdrs \in {resp.hdrs, next}
  <2>1. CASE resp' = resp
    BY <1>1, <2>1 DEF ScTypes
  <2>2. CASE ScriptResponds
    BY <1>1, <1>2, <2>2 DEF ScriptResponds, ScTypes, Responses
  <2>3. CASE RespondFails
    BY <1>1, <1>2, <2>3 DEF RespondFails, ScTypes, Responses
  <2> QED
    BY <2>1, <2>2, <2>3 DEF SkipScript, ScriptThrows, ScriptReturns, ReadBackFails
<1>5. \A f \in Everything : Of(f)' \subseteq Of(f) \cup {next}
  <2> SUFFICES ASSUME NEW f \in Everything PROVE Of(f)' \subseteq Of(f) \cup {next}
    OBVIOUS
  <2>1. CASE f = "response"
    BY <1>4, <2>1 DEF Of
  <2>2. CASE f = "headers"
    BY <1>3, <2>2 DEF Of
  <2>3. CASE f = "body"
    BY <1>3, <2>3 DEF Of
  <2>4. CASE f \notin {"response", "headers", "body"}
    <3>1. f \in Tagged
      BY <2>4, OrderIsOnce
    <3> QED
      BY <1>3, <2>4, <3>1 DEF Of
  <2> QED
    BY <2>1, <2>2, <2>3, <2>4
<1>6. \/ failed' = failed /\ halves' = halves
      \/ /\ failed' = failed \cup {next} /\ halves' = halves
         /\ \A f \in Everything : Of(f)' = Of(f)
      \/ /\ failed' = failed
         /\ \E at \in Everything :
              /\ halves' = halves \cup {<<next, at>>}
              /\ \A f \in Spared(at) : Of(f)' = Of(f)
  <2>1. CASE SkipScript \/ ScriptResponds \/ ScriptReturns
    BY <2>1 DEF SkipScript, ScriptResponds, ScriptReturns
  <2>2. CASE ScriptThrows
    BY <2>2 DEF ScriptThrows, Of
  <2>3. CASE RespondFails
    <3>1. "response" \in Everything
      BY OrderIsOnce
    <3>2. \A f \in Spared("response") : f # "response"
      BY OrderIsOnce DEF Spared
    <3>3. \A f : f # "response" => Of(f)' = Of(f)
      BY <2>3 DEF RespondFails, Of
    <3> QED
      BY <2>3, <3>1, <3>2, <3>3 DEF RespondFails
  <2>4. CASE ReadBackFails
    <3>1. PICK at \in Fields \ {"response"}, done \in SUBSET Headers :
            /\ done # {} => at = "headers"
            /\ ReadsBack({f \in Fields : ReadBefore(f, at)}, done)
            /\ halves' = halves \cup {<<next, at>>}
      BY <2>4 DEF ReadBackFails
    <3> DEFINE read == {f \in Fields : ReadBefore(f, at)}
    <3>2. at \in Everything
      BY OrderIsOnce DEF Fields, Tagged
    <3>3. /\ done = {} => hdr' = hdr
          /\ "body" \notin read => body' = body
          /\ \A f \in Tagged : f \notin read => from'[f] = from[f]
      BY <1>2, <3>1, ReadsBackMeans
    <3>4. ASSUME NEW f \in Spared(at) PROVE Of(f)' = Of(f)
      <4>1. f \in Everything /\ (f = "response" \/ f \notin read)
        BY <3>2, OrderIsOnce DEF Spared
      <4>2. CASE f = "response"
        BY <2>4, <4>2 DEF ReadBackFails, Of
      <4>3. CASE f = "headers"
        <5>1. at # "headers"
          BY <3>1, <4>3, OrderIsOnce DEF Spared
        <5> QED
          BY <3>1, <3>3, <4>3, <5>1 DEF Of
      <4>4. CASE f = "body"
        BY <3>3, <4>1, <4>4 DEF Of
      <4>5. CASE f \notin {"response", "headers", "body"}
        <5>1. f \in Tagged
          BY <4>1, <4>5, OrderIsOnce
        <5> QED
          BY <3>3, <4>1, <4>5, <5>1 DEF Of
      <4> QED
        BY <4>2, <4>3, <4>4, <4>5
    <3> QED
      BY <2>4, <3>1, <3>2, <3>4 DEF ReadBackFails
  <2> QED
    BY <2>1, <2>2, <2>3, <2>4
<1>7. FailedLeaveNoTrace'
  BY <1>2, <1>5, <1>6, TraceKept
<1>8. failed' \subseteq failed \cup {next} /\ halves' \subseteq halves \cup ({next} \X Everything)
  BY <1>6
<1>9. ScTypes'
  <2>1. next' \in 1 .. N + 1 /\ failed' \subseteq Scripts /\ halves' \subseteq Scripts \X Everything
    BY <1>1, <1>2, <1>8 DEF ScTypes, Scripts
  <2> QED
    BY <1>1, <1>2, <1>3, <1>4, <2>1 DEF ScTypes, Everything
<1>10. Past'
  <2>1. /\ next \in Int /\ resp.by \in Int /\ resp.status \in Int /\ resp.body \in Int
        /\ resp.hdrs \in Int /\ body.by \in Int
        /\ \A h \in Headers : hdr[h].by \in Int
        /\ \A f \in Tagged : from[f] \in Int
        /\ \A k \in failed : k \in Int
        /\ \A p \in halves : p[1] \in Int
    BY <1>1 DEF ScTypes, Values, Bodies, Responses, Scripts
  <2>2. resp'.by < next' /\ resp'.status < next' /\ resp'.body < next' /\ resp'.hdrs < next'
    BY <1>1, <1>2, <1>4, <2>1 DEF Past
  <2>3. body'.by < next' /\ (\A h \in Headers : hdr'[h].by < next') /\ \A f \in Tagged : from'[f] < next'
    <3>1. /\ body.by < next /\ (\A h \in Headers : hdr[h].by < next)
          /\ (\A f \in Tagged : from[f] < next)
      BY <1>1, <1>2 DEF Past
    <3> QED
      BY <1>2, <1>3, <2>1, <3>1
  <2>4. (\A k \in failed' : k < next') /\ \A p \in halves' : p[1] < next'
    <3>1. (\A k \in failed : k < next) /\ \A p \in halves : p[1] < next
      BY <1>1, <1>2 DEF Past
    <3>2. \A p \in {next} \X Everything : p[1] = next
      OBVIOUS
    <3>3. ASSUME NEW p \in halves' PROVE p[1] < next'
      <4>1. p \in halves \/ p[1] = next
        BY <1>8, <3>2
      <4> QED
        BY <1>2, <2>1, <3>1, <4>1
    <3>4. ASSUME NEW k \in failed' PROVE k < next'
      BY <1>2, <1>8, <2>1, <3>1
    <3> QED
      BY <3>3, <3>4
  <2> QED
    BY <2>2, <2>3, <2>4 DEF Past
<1>11. Decoded'
  BY <1>1, <1>2, <1>3 DEF Decoded, WireBody
<1> QED
  BY <1>7, <1>9, <1>10, <1>11 DEF ScInv

\* What leaves nothing behind now leaves nothing when the fields only lose values.
LEMMA TraceOfFewer ==
  ASSUME FailedLeaveNoTrace, UNCHANGED <<failed, halves, hdr, from, resp>>, body'.by \in {0, body.by},
         0 \notin failed, \A p \in halves : p[1] # 0 /\ p[2] \in Everything
  PROVE  FailedLeaveNoTrace'
<1>1. \A f : Of(f)' \subseteq Of(f) \cup {0}
  BY DEF Of
<1>2. \A at \in Everything : Spared(at) \subseteq Everything
  BY OrderIsOnce DEF Spared
<1>3. \A k \in failed, f \in Everything : k \notin Of(f)'
  BY <1>1 DEF FailedLeaveNoTrace
<1>4. \A p \in halves : \A f \in Spared(p[2]) : p[1] \notin Of(f)'
  BY <1>1, <1>2 DEF FailedLeaveNoTrace
<1> QED
  BY <1>3, <1>4 DEF FailedLeaveNoTrace, Spared, Everything, ReadBefore

\* Every step of the interceptor keeps the invariant.
LEMMA InterceptorStepInv ==
  ASSUME ScInv, ReplySynthetic \/ ReplyBlocked \/ Forward \/ Answer \/ ReplyReplaced \/ ReplyScripted
  PROVE  ScInv'
<1>1. N \in Nat /\ ScTypes /\ Past /\ Decoded /\ FailedLeaveNoTrace
  BY ScriptingAssumption DEF ScInv
<1>z. 0 \notin failed /\ \A p \in halves : p[1] # 0 /\ p[2] \in Everything
  BY <1>1 DEF ScTypes, Scripts
<1> DEFINE Messages == [by : 0 .. N, enc : Encodings \cup {"identity"},
                        layers : Seq(Encodings \cup {"identity"})]
<1>2. \A by \in 0 .. N, enc \in Encodings \cup {"identity"}, ls \in Seq(Encodings \cup {"identity"}) :
        Message(by, enc, ls) \in Messages
  BY DEF Message
<1>3. << >> \in Seq(Encodings \cup {"identity"})
      /\ \A enc \in Encodings \cup {"identity"} : <<enc>> \in Seq(Encodings \cup {"identity"})
  OBVIOUS
<1>w. wire.by \in 0 .. N /\ wire.enc \in Encodings \cup {"identity"}
      /\ wire.layers \in Seq(Encodings \cup {"identity"})
  BY <1>1 DEF ScTypes
<1> HIDE DEF Messages
<1>4. CASE ReplySynthetic \/ ReplyBlocked \/ ReplyReplaced
  <2>1. /\ UNCHANGED <<next, from, hdr, body, coded, resp, failed, halves>>
        /\ phase' \in {"synthetic", "blocked", "replaced"}
        /\ \E by \in {0, resp.by} : wire' = Message(by, "identity", << >>)
    BY <1>4 DEF ReplySynthetic, ReplyBlocked, ReplyReplaced
  <2>2. wire' \in Messages
    <3>1. resp.by \in 0 .. N /\ 0 \in 0 .. N
      BY <1>1 DEF ScTypes, Responses
    <3> QED
      BY <1>2, <1>3, <2>1, <3>1
  <2>3. ScTypes'
    BY <1>1, <2>1, <2>2 DEF ScTypes, Everything, Messages
  <2>4. FailedLeaveNoTrace'
    BY <1>1, <1>z, <2>1, TraceOfFewer
  <2> QED
    BY <1>1, <2>1, <2>3, <2>4 DEF ScInv, Past, Decoded, WireBody
<1>5. CASE Forward \/ ReplyScripted
  <2>1. /\ UNCHANGED <<next, from, hdr, coded, resp, failed, halves>>
        /\ phase \in {"request", "response"} /\ phase' \in {"upstream", "scripted"}
        /\ \E ok \in BOOLEAN : body' = EncodeBody(body, ok)
    BY <1>5 DEF Forward, ReplyScripted, Ran
  <2>2. body' \in Bodies /\ ~body'.json /\ body'.by \in {0, body.by}
    <3> DEFINE plain == [body EXCEPT !.json = FALSE]
    <3>1. body \in Bodies /\ 0 \in 0 .. N
      BY <1>1 DEF ScTypes
    <3>2. DOMAIN body = {"by", "json"} /\ body.by \in 0 .. N
      BY <3>1 DEF Bodies
    <3>3. plain \in Bodies /\ ~plain.json /\ plain.by = body.by
      <4>1. plain.by = body.by /\ plain.json = FALSE
        BY <3>2
      <4>2. plain \in Bodies
        BY <3>1 DEF Bodies
      <4> QED
        BY <4>1, <4>2
    <3>4. Original \in Bodies /\ ~Original.json /\ Original.by = 0
      BY <3>1 DEF Original, Bodies
    <3>5. ~coded => ~body.json
      BY <1>1, <2>1, Zenon DEF Decoded
    <3>6. \/ body' = plain \/ body' = Original
          \/ body' = body /\ ~coded
      BY <2>1 DEF EncodeBody
    <3> HIDE DEF plain
    <3> QED
      BY <3>1, <3>3, <3>4, <3>5, <3>6, Zenon
  <2>3. wire' \in Messages
    <3>1. body'.by \in 0 .. N
      BY <2>2 DEF Bodies
    <3>2. Layers(body') \in Seq(Encodings \cup {"identity"})
      BY <1>3, <1>w DEF Layers
    <3>3. <<wire.enc>> \o Layers(body') \in Seq(Encodings \cup {"identity"})
      BY <1>3, <1>w, <3>2
    <3>4. \E ls \in Seq(Encodings \cup {"identity"}), enc \in Encodings \cup {"identity"} :
             wire' = Message(body'.by, enc, ls)
      <4>1. CASE Forward
        BY <1>w, <3>2, <4>1 DEF Forward
      <4>2. CASE ReplyScripted
        <5>1. wire' \in {Recompressed(body'), Plain(body')}
          BY <4>2 DEF ReplyScripted
        <5> QED
          BY <1>w, <3>2, <3>3, <5>1 DEF Recompressed, Plain
      <4> QED
        BY <1>5, <4>1, <4>2
    <3> QED
      BY <1>2, <3>1, <3>4
  <2>4. ScTypes'
    BY <1>1, <2>1, <2>2, <2>3 DEF ScTypes, Everything, Messages
  <2>5. Past' /\ Decoded'
    BY <1>1, <2>1, <2>2 DEF Past, Decoded, WireBody
  <2>6. FailedLeaveNoTrace'
    BY <1>1, <1>z, <2>1, <2>2, TraceOfFewer
  <2> QED
    BY <2>4, <2>5, <2>6 DEF ScInv
<1>6. CASE Answer
  <2>1. /\ phase' = "response" /\ next' = 1 /\ resp' = NoResponse /\ failed' = {} /\ halves' = {}
        /\ from' = Untouched
        /\ hdr' \in [Headers -> {[n |-> k, by |-> 0] : k \in 0 .. 2}]
        /\ coded' \in BOOLEAN /\ body' = [by |-> 0, json |-> coded']
    BY <1>6 DEF Answer
  <2>2. hdr' \in [Headers -> Values] /\ \A h \in Headers : hdr'[h].by = 0
    BY <1>1, <2>1 DEF Values
  <2>3. body' \in Bodies /\ body'.by = 0 /\ body'.json = coded'
    BY <1>1, <2>1 DEF Bodies
  <2>4. wire' \in Messages
    <3>1. PICK enc \in Encodings \cup {"identity"} :
            wire' = Message(0, enc, IF enc \in Encodings \ Supported THEN <<enc>> ELSE << >>)
      BY <1>6 DEF Answer
    <3> DEFINE ls == IF enc \in Encodings \ Supported THEN <<enc>> ELSE << >>
    <3>2. wire' = Message(0, enc, ls) /\ 0 \in 0 .. N
      BY <1>1, <3>1
    <3>3. ls \in Seq(Encodings \cup {"identity"})
      BY <1>3
    <3> HIDE DEF ls
    <3> QED
      BY <1>2, <3>2, <3>3
  <2>5. from' \in [Tagged -> 0 .. N] /\ \A f \in Tagged : from'[f] = 0
    BY <1>1, <2>1 DEF Untouched
  <2>6. ScTypes'
    BY <1>1, <2>1, <2>2, <2>3, <2>4, <2>5 DEF ScTypes, NoResponse, Responses, Everything, Messages
  <2>7. Past' /\ FailedLeaveNoTrace'
    BY <2>1, <2>2, <2>3, <2>5 DEF Past, FailedLeaveNoTrace, NoResponse
  <2>8. Decoded'
    BY <2>1, <2>3 DEF Decoded, WireBody
  <2> QED
    BY <2>6, <2>7, <2>8 DEF ScInv
<1> QED
  BY <1>4, <1>5, <1>6

\* Every step keeps the invariant.
LEMMA ScNextInv == ScInv /\ [SCNext]_scVars => ScInv'
<1> SUFFICES ASSUME ScInv, [SCNext]_scVars PROVE ScInv'
  OBVIOUS
<1>1. CASE UNCHANGED scVars
  <2>1. UNCHANGED <<phase, next, from, hdr, body, coded, resp, wire, failed, halves>>
    BY <1>1 DEF scVars
  <2>2. ScTypes' /\ Past' /\ Decoded'
    BY <2>1 DEF ScInv, ScTypes, Past, Decoded, WireBody, Everything
  <2>3. FailedLeaveNoTrace'
    <3>1. (\A f : Of(f)' = Of(f)) /\ UNCHANGED <<failed, halves>>
      BY <2>1 DEF Of
    <3> QED
      BY <3>1 DEF ScInv, FailedLeaveNoTrace, Spared, Everything, ReadBefore
  <2> QED
    BY <2>2, <2>3 DEF ScInv
<1>2. CASE SCNext
  BY <1>2, ScriptStepInv, InterceptorStepInv DEF SCNext
<1> QED
  BY <1>1, <1>2

-----------------------------------------------------------------------------
(* The theorems *)

\* The inductive invariant of a flow's scripts holds throughout.
THEOREM ScriptingInvariant == SCSpec => []ScInv
  BY ScInitInv, ScNextInv, PTL DEF SCSpec

\* Nothing of a script that failed in its own code is in the context or in a response, and
\* of one that failed in the read-back only what was read before, for any number of scripts.
THEOREM FailuresLeaveNoTrace == SCSpec => []FailedLeaveNoTrace
<1>1. ScInv => FailedLeaveNoTrace
  BY DEF ScInv
<1> QED
  BY <1>1, ScriptingInvariant, PTL

\* Once a script has answered, only a later script's answer takes its place.
THEOREM AnswersStand == SCSpec => AnsweredStaysAnswered
<1> DEFINE Stands == resp.by # 0 /\ phase' = phase =>
                       resp'.by >= resp.by /\ UNCHANGED <<url, hdr, blocked, body>>
<1>1. ASSUME ScInv, SCNext PROVE Stands
  <2>1. next \in Int /\ resp.by \in Int /\ resp.by < next
    BY <1>1, ScriptingAssumption DEF ScInv, ScTypes, Past, Responses
  <2>2. CASE SkipScript \/ ScriptThrows
    BY <2>1, <2>2 DEF SkipScript, ScriptThrows
  <2>3. CASE ScriptResponds \/ RespondFails
    <3>1. resp'.by = next /\ UNCHANGED <<url, hdr, blocked, body>>
      BY <2>3 DEF ScriptResponds, RespondFails
    <3> QED
      BY <2>1, <3>1
  <2>4. CASE ScriptReturns \/ ReadBackFails
    BY <2>1, <2>4 DEF ScriptReturns, ReadBackFails
  <2>5. CASE ReplySynthetic \/ ReplyBlocked \/ Forward \/ Answer \/ ReplyReplaced
             \/ ReplyScripted
    BY <2>5 DEF ReplySynthetic, ReplyBlocked, Forward, Answer, ReplyReplaced, ReplyScripted,
                Ran
  <2> QED
    BY <1>1, <2>2, <2>3, <2>4, <2>5 DEF SCNext
<1>2. ScInv /\ [SCNext]_scVars => [Stands]_scVars
  BY <1>1
<1> QED
  BY <1>2, ScriptingInvariant, PTL DEF SCSpec, AnsweredStaysAnswered

\* What leaves is what its headers say, whatever encodings the client and upstream use,
\* with the two exceptions EncodingTruthful names.
THEOREM WireIsTruthful == SCSpec => []WireTruthful
<1> DEFINE Truth == AsItCame /\ EncodingTruthful
<1>1. SCInit => Truth
  <2> SUFFICES ASSUME SCInit PROVE Truth
    OBVIOUS
  <2>1. PICK enc \in Encodings \cup {"identity"} : wire = Message(0, enc, LayersOf(enc))
    BY DEF SCInit
  <2>2. phase = "request" /\ wire.by = 0 /\ Truthful
    BY <2>1 DEF SCInit, Truthful, Message
  <2> QED
    BY <2>2 DEF AsItCame, EncodingTruthful, Ends
<1>2. Truth /\ ScInv /\ [SCNext]_scVars => Truth'
  <2> SUFFICES ASSUME Truth, ScInv, [SCNext]_scVars PROVE Truth'
    OBVIOUS
  <2>1. CASE UNCHANGED scVars \/ SkipScript \/ ScriptThrows \/ ScriptResponds \/ RespondFails
             \/ ScriptReturns \/ ReadBackFails
    <3>1. UNCHANGED <<phase, wire>>
      BY <2>1 DEF scVars, SkipScript, ScriptThrows, ScriptResponds, RespondFails, ScriptReturns,
                  ReadBackFails
    <3> QED
      BY <3>1 DEF AsItCame, EncodingTruthful, Truthful, LayersOf, Ends
  <2>2. CASE ReplySynthetic \/ ReplyBlocked \/ ReplyReplaced
    <3>1. /\ phase' \notin {"request", "response", "upstream"}
          /\ \E by : wire' = Message(by, "identity", << >>)
      BY <2>2 DEF ReplySynthetic, ReplyBlocked, ReplyReplaced
    <3>2. Truthful'
      BY <3>1 DEF Truthful, LayersOf, Message
    <3> QED
      BY <3>1, <3>2 DEF AsItCame, EncodingTruthful
  <2>3. CASE Answer
    <3>1. PICK enc \in Encodings \cup {"identity"} :
            wire' = Message(0, enc, IF enc \in Encodings \ Supported THEN <<enc>> ELSE << >>)
      BY <2>3 DEF Answer
    <3>2. phase' = "response"
      BY <2>3 DEF Answer
    <3> QED
      BY <3>1, <3>2 DEF AsItCame, EncodingTruthful, Ends, Message
  <2>4. CASE Forward
    <3>1. /\ phase' = "upstream" /\ wire' = Message(body'.by, wire.enc, Layers(body'))
          /\ wire.layers = LayersOf(wire.enc)
      BY <2>4 DEF Forward, Ran, AsItCame, Truthful
    <3>2. wire'.by = body'.by /\ wire'.enc = wire.enc /\ wire'.layers = Layers(body')
      BY <3>1 DEF Message
    <3>3. wire'.by = 0 \/ wire'.enc = "identity" => Truthful'
      BY <3>1, <3>2 DEF Truthful, Layers, LayersOf
    <3> QED
      BY <3>1, <3>3 DEF AsItCame, EncodingTruthful, Ends
  <2>5. CASE ReplyScripted
    <3>1. /\ phase' = "scripted"
          /\ wire.layers = IF wire.enc \in Encodings \ Supported THEN <<wire.enc>> ELSE << >>
          /\ wire.enc \in Encodings \cup {"identity"}
      BY <2>5 DEF ReplyScripted, Ran, AsItCame, ScInv, ScTypes
    <3>2. \/ wire.enc \in Supported /\ wire' = Recompressed(body')
          \/ wire' = Plain(body')
      BY <2>5 DEF ReplyScripted
    <3>3. CASE wire.enc \in Supported /\ wire' = Recompressed(body')
      <4>1. wire.enc # "identity" /\ wire.layers = << >>
        BY <3>1, <3>3, ScriptingAssumption
      <4>2. <<wire.enc>> \o Layers(body') = <<wire.enc>>
        BY <4>1 DEF Layers
      <4>3. wire'.enc = wire.enc /\ wire'.layers = <<wire.enc>>
        BY <3>3, <4>2 DEF Recompressed, Message
      <4>4. Truthful'
        BY <4>1, <4>3 DEF Truthful, LayersOf
      <4> QED
        BY <3>1, <4>4 DEF AsItCame, EncodingTruthful
    <3>4. CASE wire' = Plain(body')
      <4>1. wire'.by = body'.by /\ wire'.enc = "identity" /\ wire'.layers = Layers(body')
        BY <3>4 DEF Plain, Message
      <4>2. CASE Layers(body') = << >>
        BY <3>1, <4>1, <4>2 DEF Truthful, LayersOf, AsItCame, EncodingTruthful
      <4>3. CASE Layers(body') # << >>
        <5>1. wire'.by = 0 /\ wire'.layers = <<wire.enc>> /\ wire.enc \notin Supported
          BY <3>1, <4>1, <4>3 DEF Layers
        <5>2. 1 \in DOMAIN wire'.layers /\ wire'.layers[1] = wire.enc
          BY <5>1
        <5> QED
          BY <3>1, <5>1, <5>2 DEF AsItCame, EncodingTruthful
      <4> QED
        BY <4>2, <4>3
    <3> QED
      BY <3>2, <3>3, <3>4
  <2> QED
    BY <2>1, <2>2, <2>3, <2>4, <2>5 DEF SCNext
<1>3. ScInv /\ Truth => WireTruthful
  BY DEF ScInv, Decoded, WireTruthful
<1> HIDE DEF Truth
<1> QED
  BY <1>1, <1>2, <1>3, ScriptingInvariant, PTL DEF SCSpec

-----------------------------------------------------------------------------
(* Script files, for any interleaving of the operations.                   *)

Scanning(a) == apc[a] \in {"scan", "truncate", "backfill"}
Toggling(a) == apc[a] \in {"totrunc", "towrite"}
Loading(a) == Scanning(a) /\ stage[a] = "load"
Lost(f) == disk[f].st \in {"none", "empty"}

\* What holds of one manager's locals whatever the others do.
Locals(a) ==
  /\ apc[a] \in {"truncate", "backfill"} => todo[a] # {} /\ buf[a].st = "good"
  /\ apc[a] \in {"toggle", "totrunc", "towrite", "remove", "fill", "edit"} =>
       target[a] \in Files
  /\ Toggling(a) => buf[a].st = "good"
  /\ Scanning(a) =>
       /\ \A i, j \in 1 .. Len(got[a]) : i < j => got[a][i].file < got[a][j].file
       /\ \A i \in 1 .. Len(got[a]) : \A f \in todo[a] : got[a][i].file < f

InRange == /\ SFTypeOK
           /\ \A f \in Files : Lost(f) => disk[f].id = 0
           /\ \A a \in Managers : Locals(a)

\* x is, was read as, or was told as the ID of file f.
Found1(a, f, x) == \E i \in 1 .. Len(got[a]) : got[a][i].file = f /\ got[a][i].id = x
Names(f, x) ==
  x # 0 /\ \/ disk[f].id = x \/ known[f] = x
           \/ \E a \in Managers : \/ Found1(a, f, x)
                                  \/ Toggling(a) /\ target[a] = f /\ buf[a].id = x

\* An ID belongs to one file.
OwnIDs == \A f \in Files, x \in Nat :
            Names(f, x) => x <= lastID /\ \A g \in Files : Names(g, x) => g = f

\* x was told as the ID of f, or is about to be.
Told(f, x) == x # 0 /\ (known[f] = x \/ \E a \in Managers : Scanning(a) /\ Found1(a, f, x))

\* The file that is being written has no other writer.
Writes1(a) ==
  /\ \A b \in Managers : Writing(a) /\ Writing(b) => a = b
  /\ apc[a] = "truncate" => disk[Next1(a)].id = 0
  /\ apc[a] = "backfill" => /\ Lost(Next1(a))
                            /\ disk[Next1(a)].st = "none" => Next1(a) \in gone
  /\ apc[a] = "totrunc" => Lost(target[a]) \/ disk[target[a]].id = buf[a].id
  /\ apc[a] \in {"towrite", "fill"} => Lost(target[a])

\* What is told of a file that is there is its ID, and nobody is about to change it.
Keeps(f, x) ==
  /\ Lost(f) \/ disk[f].id = x
  /\ disk[f].st = "none" => f \in gone
  /\ \A a \in Managers :
       /\ apc[a] \in {"truncate", "backfill"} => Next1(a) # f
       /\ apc[a] = "fill" => target[a] # f
       /\ Toggling(a) /\ target[a] = f => buf[a].id = x

Firm == ~clashed => /\ \A a \in Managers : Writes1(a)
                    /\ \A f \in Files, x \in Nat : Told(f, x) => Keeps(f, x)

\* A reload of a is still to come.
Due(a) == apc[a] \in {"towrite", "edit", "clear"}

\* One manager is midway, and a load starts from an empty engine.
Ordered ==
  /\ \A a, b \in Managers : Midway(a) /\ Midway(b) => a = b
  /\ \A i, j \in 1 .. Len(engine) : i < j => engine[i] < engine[j]
  /\ \A a \in Managers : Loading(a) => engine = << >>
  /\ apc["tui"] = "fill" => Lost(target["tui"])

\* The engine has the scripts that are enabled, but for one that is being given its ID; a
\* load has found those that it has passed.
Backfilled(a) == {f \in Files : apc[a] = "backfill" /\ f = Next1(a) /\ buf[a].enabled}
Current ==
  /\ \A a \in Managers :
       /\ apc[a] = "truncate" => disk[Next1(a)] = buf[a]
       /\ apc[a] = "backfill" => disk[Next1(a)].st = "empty"
       /\ Loading(a) => \A f \in Files \ todo[a] :
            f \in EnabledOnDisk <=> \E i \in 1 .. Len(got[a]) :
                                      got[a][i].enabled /\ got[a][i].file = f
  /\ (\A a \in Managers : ~Loading(a)) =>
       Loaded = EnabledOnDisk \cup UNION {Backfilled(a) : a \in Managers}

InStep == ~disturbed => Ordered /\ ((\A a \in Managers : ~Due(a)) => Current)

SfInv == InRange /\ OwnIDs /\ Firm /\ InStep

\* What the other managers are at stays as it is.
Elsewhere(a) ==
  \A b \in Managers \ {a} :
    /\ apc'[b] = apc[b] /\ stage'[b] = stage[b] /\ todo'[b] = todo[b]
    /\ got'[b] = got[b] /\ target'[b] = target[b] /\ buf'[b] = buf[b]

-----------------------------------------------------------------------------

\* The next file of a scan.
LEMMA NextIsLeast ==
  ASSUME NEW S \in SUBSET Files, S # {}
  PROVE  Least(S) \in S /\ Least(S) \in Files /\ \A f \in S : Least(S) <= f
<1>1. S \subseteq Int /\ IsFiniteSet(S)
  <2>1. S \subseteq Files /\ IsFiniteSet(Files) /\ Files \subseteq Nat
    BY FilesAssumption
  <2>2. IsFiniteSet(S)
    BY <2>1, FS_Subset
  <2> QED
    BY <2>1, <2>2
<1>2. \E x \in S : \A y \in S : x <= y
  BY <1>1, SmallestExists
<1> QED
  BY <1>2 DEF Least

\* Files, entries and contents, field by field.
LEMMA Fields1 ==
  /\ \A e \in Entry : e.file \in Files /\ e.file \in Nat /\ e.id \in Nat /\ e.enabled \in BOOLEAN
  /\ \A f \in Files, c \in Content :
       [file |-> f, id |-> c.id, enabled |-> c.enabled] \in Entry
  /\ \A c \in Content : c.st \in {"none", "empty", "bad", "good"} /\ c.id \in Nat
                        /\ c.enabled \in BOOLEAN
  /\ NoFile \in Content /\ NoFile.st = "none" /\ NoFile.id = 0 /\ NoFile.enabled = FALSE
  /\ EmptyFile \in Content /\ EmptyFile.st = "empty" /\ EmptyFile.id = 0
  /\ \A n \in Nat, e \in BOOLEAN : /\ Script(n, e) \in Content /\ Script(n, e).st = "good"
                                   /\ Script(n, e).id = n
<1>1. Files \subseteq Nat
  BY FilesAssumption
<1> QED
  BY <1>1 DEF Entry, Content, NoFile, EmptyFile, Script

\* What a scan has found are entries for files.
LEMMA FoundTypes ==
  ASSUME NEW a \in Managers, SFTypeOK
  PROVE  /\ Len(got[a]) \in Nat
         /\ \A i \in 1 .. Len(got[a]) :
              /\ got[a][i] \in Entry /\ got[a][i].file \in Files /\ got[a][i].file \in Nat
              /\ got[a][i].id \in Nat /\ got[a][i].enabled \in BOOLEAN
<1>1. got[a] \in Seq(Entry)
  BY DEF SFTypeOK
<1>2. \A i \in 1 .. Len(got[a]) : got[a][i] \in Entry
  BY <1>1
<1>3. Len(got[a]) \in Nat
  BY <1>1
<1>4. \A e \in Entry : /\ e.file \in Files /\ e.file \in Nat
                       /\ e.id \in Nat /\ e.enabled \in BOOLEAN
  BY FilesAssumption DEF Entry
<1> QED
  BY <1>2, <1>3, <1>4

\* A scan starts, goes on or is left.
LEMMA GotTypes ==
  ASSUME NEW a \in Managers, SFTypeOK,
         \/ got' = got
         \/ got' = [got EXCEPT ![a] = << >>]
         \/ \E e \in Entry : got' = [got EXCEPT ![a] = Append(@, e)]
  PROVE  got' \in [Managers -> Seq(Entry)]
<1>1. got \in [Managers -> Seq(Entry)] /\ << >> \in Seq(Entry)
  BY DEF SFTypeOK
<1>2. \A e \in Entry : Append(got[a], e) \in Seq(Entry)
  BY <1>1
<1>3. CASE got' = [got EXCEPT ![a] = << >>]
  BY <1>1, <1>3
<1>4. CASE \E e \in Entry : got' = [got EXCEPT ![a] = Append(@, e)]
  <2>1. PICK e \in Entry : got' = [got EXCEPT ![a] = Append(@, e)]
    BY <1>4
  <2>2. PICK s : s = Append(got[a], e)
    OBVIOUS
  <2>3. s \in Seq(Entry) /\ got' = [got EXCEPT ![a] = s]
    BY <1>2, <2>1, <2>2
  <2> QED
    BY <1>1, <2>3
<1> QED
  BY <1>1, <1>3, <1>4

\* What does not concern the others leaves what they are at as it is.
LEMMA OthersStay ==
  ASSUME NEW a, Elsewhere(a), NEW b \in Managers, b # a
  PROVE  /\ Scanning(b)' <=> Scanning(b)
         /\ Toggling(b)' <=> Toggling(b)
         /\ Loading(b)' <=> Loading(b)
         /\ Writing(b)' <=> Writing(b)
         /\ Midway(b)' <=> Midway(b)
         /\ Due(b)' <=> Due(b)
         /\ Locals(b)' <=> Locals(b)
         /\ Next1(b)' = Next1(b)
         /\ \A f, x : Found1(b, f, x)' <=> Found1(b, f, x)
<1>1. /\ apc'[b] = apc[b] /\ stage'[b] = stage[b] /\ todo'[b] = todo[b]
      /\ got'[b] = got[b] /\ target'[b] = target[b] /\ buf'[b] = buf[b]
  BY DEF Elsewhere
<1>2. /\ Scanning(b)' <=> Scanning(b)
      /\ Toggling(b)' <=> Toggling(b)
      /\ Writing(b)' <=> Writing(b)
      /\ Due(b)' <=> Due(b)
      /\ Next1(b)' = Next1(b)
      /\ \A f, x : Found1(b, f, x)' <=> Found1(b, f, x)
  BY <1>1 DEF Scanning, Toggling, Writing, Due, Next1, Found1
<1>3. (Loading(b)' <=> Loading(b)) /\ (Midway(b)' <=> Midway(b))
  BY <1>1, <1>2 DEF Loading, Midway
<1>4. Locals(b)' <=> Locals(b)
  BY <1>1, <1>2 DEF Locals
<1> QED
  BY <1>2, <1>3, <1>4

\* What manager a keeps in its entries and in the source it rewrites.
HasName(a, f, x) == Found1(a, f, x) \/ (Toggling(a) /\ target[a] = f /\ buf[a].id = x)

\* IDs stay apart when a passes on what it has read, or gives one file h the next ID.
LEMMA IdsPass ==
  ASSUME NEW a \in Managers, SFTypeOK, OwnIDs, Elsewhere(a), NEW h,
         lastID' = lastID \/ lastID' = lastID + 1,
         \A f \in Files, x \in Nat \ {0} :
           disk'[f].id = x \/ known'[f] = x \/ HasName(a, f, x)'
           => Names(f, x) \/ (f = h /\ x = lastID + 1 /\ lastID' = lastID + 1)
  PROVE  OwnIDs'
<1> DEFINE New(f, x) == f = h /\ x = lastID + 1 /\ lastID' = lastID + 1
<1>1. ASSUME NEW f \in Files, NEW x \in Nat, Names(f, x)'
      PROVE  x # 0 /\ (Names(f, x) \/ New(f, x))
  <2>1. x # 0 /\ \/ disk'[f].id = x \/ known'[f] = x
                 \/ \E b \in Managers : HasName(b, f, x)'
    BY <1>1 DEF Names, HasName
  <2>2. ASSUME NEW b \in Managers, b # a, HasName(b, f, x)' PROVE Names(f, x)
    <3>1. target'[b] = target[b] /\ buf'[b] = buf[b]
      BY <2>2 DEF Elsewhere
    <3>2. HasName(b, f, x)
      BY <2>2, <3>1, OthersStay DEF HasName
    <3> QED
      BY <2>1, <3>2 DEF HasName, Names
  <2> QED
    BY <2>1, <2>2
<1>2. lastID \in Nat
  BY DEF SFTypeOK
<1>3. ASSUME NEW f \in Files, NEW x \in Nat, Names(f, x)'
      PROVE  x <= lastID' /\ \A g \in Files : Names(g, x)' => g = f
  <2>1. Names(f, x) \/ New(f, x)
    BY <1>1, <1>3
  <2>2. \A g \in Files : Names(g, x)' => Names(g, x) \/ New(g, x)
    BY <1>1
  <2>3. \A g \in Files : Names(g, x) => x <= lastID
    BY DEF OwnIDs
  <2>4. CASE Names(f, x)
    <3>1. x <= lastID /\ \A g \in Files : Names(g, x) => g = f
      BY <2>4 DEF OwnIDs
    <3>2. \A g \in Files : ~New(g, x)
      BY <1>2, <3>1
    <3> QED
      BY <1>2, <2>2, <3>1, <3>2
  <2>5. CASE New(f, x)
    <3>1. \A g \in Files : ~Names(g, x)
      BY <1>2, <2>3, <2>5
    <3> QED
      BY <1>2, <2>2, <2>5, <3>1
  <2> QED
    BY <2>1, <2>4, <2>5
<1> QED
  BY <1>3 DEF OwnIDs

\* A manager's step is about its own locals.
LEMMA RangeKept ==
  ASSUME NEW a \in Managers, InRange, Elsewhere(a), SFTypeOK', Locals(a)',
         \A f \in Files : Lost(f)' => disk'[f].id = 0
  PROVE  InRange'
<1>1. \A b \in Managers : b # a => Locals(b)'
  BY OthersStay DEF InRange
<1> QED
  BY <1>1 DEF InRange

\* Where a manager is when it is not midway.
Outside == {"idle", "toggle", "remove", "edit", "clear", "loaded"}

\* A step that changes no file and leaves a outside, or at the start of a scan.
LEMMA AsideKeeps ==
  ASSUME NEW a \in Managers, SfInv, Elsewhere(a), SFTypeOK',
         UNCHANGED <<disk, gone>>, lastID' = lastID, clashed' = clashed,
         \/ apc'[a] \in Outside /\ got'[a] = got[a]
         \/ apc'[a] = "scan" /\ got'[a] = << >>,
         apc'[a] \in {"toggle", "remove", "edit"} => target'[a] \in Files,
         \A f \in Files : known'[f] = known[f] \/ Told(f, known'[f])
  PROVE  InRange' /\ OwnIDs' /\ Firm'
<1> USE DEF Outside
<1>1. /\ ~Toggling(a)' /\ ~Writing(a)'
      /\ apc'[a] \notin {"truncate", "backfill", "fill"}
  BY DEF Toggling, Writing
<1>2. InRange /\ SFTypeOK
  BY DEF SfInv, InRange
<1>3. InRange'
  <2>1. \A f \in Files : Lost(f)' => disk'[f].id = 0
    BY DEF SfInv, InRange, Lost
  <2>2. Locals(a)'
    BY <1>1 DEF Locals, Scanning
  <2> QED
    BY <1>2, <2>1, <2>2, RangeKept
<1>4. \A f, x : Found1(a, f, x)' => Found1(a, f, x)
  BY DEF Found1
<1>5. OwnIDs'
  <2>1. ASSUME NEW f \in Files, NEW x \in Nat \ {0},
               disk'[f].id = x \/ known'[f] = x \/ HasName(a, f, x)'
        PROVE  Names(f, x)
    <3>1. Told(f, x) => Names(f, x)
      BY DEF Told, Names
    <3>2. HasName(a, f, x)' => Names(f, x)
      BY <1>1, <1>4 DEF HasName, Names
    <3> QED
      BY <2>1, <3>1, <3>2 DEF Names
  <2>2. OwnIDs
    BY DEF SfInv
  <2> QED
    BY <1>2, <2>1, <2>2, IdsPass
<1>6. Firm'
  <2> SUFFICES ASSUME ~clashed PROVE (\A b \in Managers : Writes1(b)') /\
                         \A f \in Files, x \in Nat : Told(f, x)' => Keeps(f, x)'
    BY DEF Firm
  <2>1. /\ \A b \in Managers : Writes1(b)
        /\ \A f \in Files, x \in Nat : Told(f, x) => Keeps(f, x)
    BY DEF SfInv, Firm
  <2>2. ASSUME NEW b \in Managers PROVE Writes1(b)'
    <3>1. CASE b = a
      BY <1>1, <3>1 DEF Writes1, Toggling, Writing
    <3>2. CASE b # a
      <4>1. /\ apc'[b] = apc[b] /\ target'[b] = target[b] /\ buf'[b] = buf[b]
            /\ Next1(b)' = Next1(b) /\ (Writing(b)' <=> Writing(b))
        BY <3>2, OthersStay DEF Elsewhere
      <4>2. \A c \in Managers : Writing(c)' => Writing(c)
        BY <1>1, OthersStay
      <4> QED
        BY <2>1, <4>1, <4>2 DEF Writes1, Lost
    <3> QED
      BY <3>1, <3>2
  <2>3. ASSUME NEW f \in Files, NEW x \in Nat, Told(f, x)' PROVE Keeps(f, x)'
    <3>1. Told(f, x)
      <4>1. ASSUME NEW b \in Managers, Scanning(b)', Found1(b, f, x)'
            PROVE  Scanning(b) /\ Found1(b, f, x)
        <5>1. CASE b = a
          <6>1. got'[a] = << >>
            BY <4>1, <5>1 DEF Scanning
          <6> QED
            BY <4>1, <5>1, <6>1 DEF Found1
        <5>2. CASE b # a
          BY <4>1, <5>2, OthersStay
        <5> QED
          BY <5>1, <5>2
      <4>2. x # 0
        BY <2>3 DEF Told
      <4>3. CASE known'[f] = x
        BY <4>2, <4>3 DEF Told
      <4> QED
        BY <2>3, <4>1, <4>2, <4>3 DEF Told
    <3>2. Keeps(f, x)
      BY <2>1, <3>1
    <3>3. ASSUME NEW b \in Managers
          PROVE  /\ apc'[b] \in {"truncate", "backfill"} => Next1(b)' # f
                 /\ apc'[b] = "fill" => target'[b] # f
                 /\ Toggling(b)' /\ target'[b] = f => buf'[b].id = x
      <4>1. CASE b = a
        BY <1>1, <4>1
      <4>2. CASE b # a
        BY <3>2, <4>2, OthersStay DEF Keeps, Elsewhere
      <4> QED
        BY <4>1, <4>2
    <3> QED
      BY <3>2, <3>3 DEF Keeps, Lost
  <2> QED
    BY <2>2, <2>3
<1> QED
  BY <1>3, <1>5, <1>6

\* Such a step of a manager that does not load.
LEMMA Aside ==
  ASSUME NEW a \in Managers, SfInv, Elsewhere(a), SFTypeOK',
         UNCHANGED <<disk, gone>>, lastID' = lastID, clashed' = clashed,
         \/ apc'[a] \in Outside /\ got'[a] = got[a]
         \/ apc'[a] = "scan" /\ stage'[a] # "load" /\ got'[a] = << >>,
         apc'[a] \in {"toggle", "remove", "edit"} => target'[a] \in Files,
         \A f \in Files : known'[f] = known[f] \/ Told(f, known'[f]),
         \/ disturbed'
         \/ /\ disturbed' = disturbed /\ engine' = engine
            /\ Due(a) => Due(a)'
            /\ ~Loading(a) /\ apc[a] # "backfill"
  PROVE  SfInv'
<1> USE DEF Outside
<1>1. /\ ~Loading(a)' /\ ~Midway(a)'
      /\ apc'[a] \notin {"truncate", "backfill", "fill"}
  BY DEF Writing, Loading, Midway, Scanning
<1>2. InRange' /\ OwnIDs' /\ Firm'
  BY AsideKeeps
<1>3. InStep'
  <2> SUFFICES ASSUME ~disturbed' PROVE Ordered' /\ ((\A b \in Managers : ~Due(b)') => Current')
    BY DEF InStep
  <2>1. /\ ~disturbed /\ engine' = engine /\ (Due(a) => Due(a)') /\ ~Loading(a)
        /\ Ordered /\ ((\A b \in Managers : ~Due(b)) => Current) /\ apc[a] # "backfill"
    BY DEF SfInv, InStep
  <2>2. \A b \in Managers : (Midway(b)' => Midway(b)) /\ (Loading(b)' <=> Loading(b))
                            /\ (Due(b) => Due(b)')
    BY <1>1, <2>1, OthersStay
  <2>3. Ordered'
    <3>1. "tui" \in Managers /\ apc'["tui"] = "fill" => apc["tui"] = "fill" /\ target'["tui"] = target["tui"]
      BY <1>1 DEF Elsewhere
    <3>2. "tui" \in Managers
      BY DEF Managers
    <3> QED
      BY <2>1, <2>2, <3>1, <3>2 DEF Ordered, Lost
  <2>4. ASSUME \A b \in Managers : ~Due(b)' PROVE Current'
    <3>1. Current
      BY <2>1, <2>2, <2>4
    <3>2. ASSUME NEW b \in Managers, b # a
          PROVE  /\ apc'[b] = apc[b] /\ buf'[b] = buf[b] /\ Next1(b)' = Next1(b)
                 /\ todo'[b] = todo[b] /\ got'[b] = got[b] /\ Backfilled(b)' = Backfilled(b)
      <4>1. apc'[b] = apc[b] /\ buf'[b] = buf[b] /\ todo'[b] = todo[b] /\ got'[b] = got[b]
            /\ Next1(b)' = Next1(b)
        BY <3>2, OthersStay DEF Elsewhere
      <4> QED
        BY <4>1 DEF Backfilled
    <3>3. Backfilled(a)' = {} /\ EnabledOnDisk' = EnabledOnDisk /\ Loaded' = Loaded
      BY <1>1, <2>1 DEF Backfilled, EnabledOnDisk, Loaded
    <3>4. Backfilled(a) = {}
      BY <2>1 DEF Backfilled
    <3> QED
      <4>1. \A b \in Managers : Backfilled(b)' = Backfilled(b)
        BY <3>2, <3>3, <3>4
      <4>2. UNION {Backfilled(b)' : b \in Managers} = UNION {Backfilled(b) : b \in Managers}
        BY <4>1
      <4>3. ASSUME NEW b \in Managers
            PROVE  /\ apc'[b] = "truncate" => disk'[Next1(b)'] = buf'[b]
                   /\ apc'[b] = "backfill" => disk'[Next1(b)'].st = "empty"
                   /\ Loading(b)' => \A f \in Files \ todo'[b] :
                        f \in EnabledOnDisk' <=> \E i \in 1 .. Len(got'[b]) :
                                            got'[b][i].enabled /\ got'[b][i].file = f
        <5>1. CASE b = a
          BY <1>1, <5>1
        <5>2. CASE b # a
          BY <2>2, <3>1, <3>2, <3>3, <5>2 DEF Current
        <5> QED
          BY <5>1, <5>2
      <4> QED
        BY <2>2, <3>1, <3>3, <4>2, <4>3 DEF Current
  <2> QED
    BY <2>3, <2>4
<1> QED
  BY <1>2, <1>3 DEF SfInv

\* A scan starts.
LEMMA ScanStarts ==
  ASSUME NEW a \in Managers, SFTypeOK, NEW for \in {"find", "load", "show"}, StartScan(a, for),
         UNCHANGED <<disk, target, buf, gone, asked, lastID>>,
         engine' \in Seq(Files), listed' \subseteq Files, known' \in [Files -> Nat],
         calls' \in 0 .. MaxCalls, disturbed' \in BOOLEAN, clashed' \in BOOLEAN
  PROVE  /\ SFTypeOK' /\ Elsewhere(a)
         /\ apc'[a] = "scan" /\ stage'[a] = for /\ todo'[a] = Present /\ got'[a] = << >>
<1>1. /\ apc' = [apc EXCEPT ![a] = "scan"] /\ stage' = [stage EXCEPT ![a] = for]
      /\ todo' = [todo EXCEPT ![a] = Present] /\ got' = [got EXCEPT ![a] = << >>]
      /\ Present \subseteq Files
  BY DEF StartScan, Goto, Present
<1>2. got' \in [Managers -> Seq(Entry)]
  BY <1>1, GotTypes
<1>3. todo' \in [Managers -> SUBSET Files] /\ apc' \in [Managers -> PCs]
      /\ stage' \in [Managers -> {"find", "load", "show"}]
  BY <1>1 DEF SFTypeOK, PCs
<1>4. Elsewhere(a)
  BY <1>1 DEF Elsewhere, SFTypeOK
<1>5. apc'[a] = "scan" /\ stage'[a] = for /\ todo'[a] = Present /\ got'[a] = << >>
  BY <1>1 DEF SFTypeOK
<1>6. SFTypeOK'
  BY <1>2, <1>3 DEF SFTypeOK
<1> QED
  BY <1>4, <1>5, <1>6

\* A manager goes elsewhere in its program.
LEMMA GoesOn ==
  ASSUME NEW a \in Managers, SFTypeOK, NEW pc \in PCs, Goto(a, pc),
         UNCHANGED <<disk, stage, todo, got, buf, gone, asked, lastID>>,
         \/ target' = target
         \/ \E f \in Files : target' = [target EXCEPT ![a] = f],
         engine' \in Seq(Files), listed' \subseteq Files, known' \in [Files -> Nat],
         calls' \in 0 .. MaxCalls, disturbed' \in BOOLEAN, clashed' \in BOOLEAN
  PROVE  SFTypeOK' /\ Elsewhere(a) /\ apc'[a] = pc /\ got'[a] = got[a]
<1>1. apc' = [apc EXCEPT ![a] = pc] /\ apc'[a] = pc /\ apc' \in [Managers -> PCs]
  BY DEF Goto, SFTypeOK
<1>2. target' \in [Managers -> Files \cup {0}]
      /\ \A b \in Managers \ {a} : target'[b] = target[b]
  BY DEF SFTypeOK
<1>3. SFTypeOK'
  BY <1>1, <1>2 DEF SFTypeOK
<1> QED
  BY <1>1, <1>2, <1>3 DEF Elsewhere

\* What is left alone keeps its type.
LEMMA TypesStay ==
  ASSUME SFTypeOK
  PROVE  /\ UNCHANGED engine => engine' \in Seq(Files)
         /\ UNCHANGED listed => listed' \subseteq Files
         /\ UNCHANGED known => known' \in [Files -> Nat]
         /\ UNCHANGED calls => calls' \in 0 .. MaxCalls
         /\ calls' = calls + 1 /\ calls < MaxCalls => calls' \in 0 .. MaxCalls
         /\ UNCHANGED marks => disturbed' \in BOOLEAN /\ clashed' \in BOOLEAN
         /\ GoesWrong => disturbed' \in BOOLEAN /\ clashed' \in BOOLEAN
         /\ \A a \in Managers : BeginsToWrite(a) => disturbed' \in BOOLEAN /\ clashed' \in BOOLEAN
<1>1. MaxCalls \in Nat
  BY FilesAssumption
<1>2. /\ UNCHANGED engine => engine' \in Seq(Files)
      /\ UNCHANGED listed => listed' \subseteq Files
      /\ UNCHANGED known => known' \in [Files -> Nat]
      /\ UNCHANGED calls => calls' \in 0 .. MaxCalls
      /\ calls' = calls + 1 /\ calls < MaxCalls => calls' \in 0 .. MaxCalls
  BY <1>1 DEF SFTypeOK
<1>3. disturbed \in BOOLEAN /\ clashed \in BOOLEAN
  BY DEF SFTypeOK
<1>4. UNCHANGED marks => disturbed' \in BOOLEAN /\ clashed' \in BOOLEAN
  BY <1>3 DEF marks
<1>5. GoesWrong => disturbed' \in BOOLEAN /\ clashed' \in BOOLEAN
  BY <1>3 DEF GoesWrong
<1>6. \A a \in Managers : BeginsToWrite(a) => disturbed' \in BOOLEAN /\ clashed' \in BOOLEAN
  BY <1>3, Zenon DEF BeginsToWrite
<1> QED
  BY <1>2, <1>4, <1>5, <1>6

\* After the load the program goes on to show the scripts, or is done.
LEMMA AfterReloadInv ==
  ASSUME NEW a \in Managers, SfInv, AfterReload(a)
  PROVE  SfInv'
<1>1. /\ apc[a] = "loaded"
      /\ UNCHANGED <<disk, engine, target, buf, listed, known, gone, asked, lastID, calls, marks>>
      /\ StartScan(a, "show") \/ (Goto(a, "idle") /\ UNCHANGED <<stage, todo, got>>)
  BY DEF AfterReload, Finish
<1>2. SFTypeOK /\ ~Due(a) /\ ~Loading(a)
  BY <1>1 DEF SfInv, InRange, Due, Loading, Scanning
<1>3. CASE StartScan(a, "show")
  BY <1>1, <1>2, <1>3, ScanStarts, TypesStay, Aside DEF marks
<1>4. CASE Goto(a, "idle") /\ UNCHANGED <<stage, todo, got>>
  BY <1>1, <1>2, <1>4, GoesOn, TypesStay, Aside DEF marks, Outside, PCs
<1> QED
  BY <1>1, <1>3, <1>4

\* A finished look-up is shown: the TUI lists the files, a client is told the IDs.
LEMMA ShownInv ==
  ASSUME NEW a \in Managers, SfInv, Shown(a)
  PROVE  SfInv'
<1> DEFINE Hit(f) == a # "tui" /\ \E s \in Valid(a) : s.file = f
<1>1. /\ apc[a] = "scan" /\ todo[a] = {} /\ stage[a] = "show" /\ Goto(a, "idle")
      /\ listed' = IF a = "tui" THEN {s.file : s \in Entries(a)} ELSE listed
      /\ \A f \in Files : known'[f] = IF Hit(f) THEN (CHOOSE s \in Valid(a) : s.file = f).id
                                                ELSE known[f]
      /\ known' = [f \in Files |-> known'[f]]
      /\ UNCHANGED <<disk, engine, stage, todo, got, target, buf, gone, asked, lastID, calls, marks>>
  BY DEF Shown, Scanned, Finish
<1>2. SFTypeOK /\ ~Due(a) /\ ~Loading(a) /\ Scanning(a)
  BY <1>1 DEF SfInv, InRange, Due, Loading, Scanning
<1>3. /\ \A s \in Entries(a) : s.file \in Files /\ s.id \in Nat
      /\ \A s \in Valid(a) : /\ s \in Entries(a) /\ s.id # 0
                             /\ Found1(a, s.file, s.id)
  BY <1>2, FoundTypes DEF Entries, Valid, Found1
<1>4. \A f \in Files : known'[f] = known[f] \/ (known'[f] \in Nat /\ Told(f, known'[f]))
  <2> TAKE f \in Files
  <2>1. CASE Hit(f)
    <3>1. PICK s \in Valid(a) : s.file = f /\ known'[f] = s.id
      BY <1>1, <2>1
    <3> QED
      BY <1>2, <1>3, <3>1 DEF Told
  <2> QED
    BY <1>1, <2>1
<1>5. known' \in [Files -> Nat] /\ listed' \subseteq Files
  BY <1>1, <1>2, <1>3, <1>4 DEF SFTypeOK
<1>6. SFTypeOK' /\ Elsewhere(a) /\ apc'[a] = "idle" /\ got'[a] = got[a]
  BY <1>1, <1>2, <1>5, GoesOn, TypesStay DEF PCs
<1> QED
  BY <1>1, <1>2, <1>4, <1>6, Aside DEF Outside, marks

\* A script is looked up by its ID, or not found.
LEMMA PickedInv ==
  ASSUME NEW a \in Managers, SfInv, Picked(a)
  PROVE  SfInv'
<1>1. /\ apc[a] = "scan" /\ stage[a] = "find"
      /\ UNCHANGED <<disk, engine, stage, todo, got, buf, listed, known, gone, asked, lastID,
                     calls, marks>>
  BY DEF Picked, Scanned
<1>2. SFTypeOK /\ ~Due(a) /\ ~Loading(a)
  BY <1>1 DEF SfInv, InRange, Due, Loading, Scanning
<1>3. CASE \E s \in Valid(a) : /\ target' = [target EXCEPT ![a] = s.file]
                               /\ Goto(a, IF op[a] = "toggle" THEN "toggle" ELSE "remove")
  <2>1. PICK s \in Valid(a) : /\ target' = [target EXCEPT ![a] = s.file]
                              /\ Goto(a, IF op[a] = "toggle" THEN "toggle" ELSE "remove")
    BY <1>3
  <2>2. s.file \in Files
    BY <1>2, FoundTypes DEF Valid, Entries
  <2>3. PICK pc \in {"toggle", "remove"} : Goto(a, pc)
    BY <2>1
  <2>4. SFTypeOK' /\ Elsewhere(a) /\ apc'[a] = pc /\ got'[a] = got[a]
    BY <1>1, <1>2, <2>1, <2>2, <2>3, GoesOn, TypesStay DEF PCs
  <2>5. target'[a] \in Files
    BY <1>2, <2>1, <2>2 DEF SFTypeOK
  <2> QED
    BY <1>1, <1>2, <2>4, <2>5, Aside DEF Outside, marks
<1>4. CASE Goto(a, "idle") /\ UNCHANGED target
  <2>1. SFTypeOK' /\ Elsewhere(a) /\ apc'[a] = "idle" /\ got'[a] = got[a]
    BY <1>1, <1>2, <1>4, GoesOn, TypesStay DEF PCs
  <2> QED
    BY <1>1, <1>2, <2>1, Aside DEF Outside, marks
<1> QED
  BY <1>3, <1>4 DEF Picked

\* The TUI's keys and the MCP tools begin.
LEMMA StartsInv ==
  ASSUME NEW a \in Managers, SfInv,
         \/ a = "tui" /\ (OpenModal \/ KeyOnEntry)
         \/ ToolCall(a)
  PROVE  SfInv'
<1>1. /\ apc[a] = "idle" /\ calls' = calls + 1 /\ calls < MaxCalls
      /\ UNCHANGED <<disk, engine, buf, listed, known, gone, asked, lastID, marks>>
  BY DEF OpenModal, KeyOnEntry, ToolCall, CanStart, Starts
<1>2. SFTypeOK /\ ~Due(a) /\ ~Loading(a)
  BY <1>1 DEF SfInv, InRange, Due, Loading, Scanning
<1>3. CASE OpenModal /\ a = "tui"
  <2>1. Goto(a, "clear") /\ UNCHANGED <<stage, todo, got, target>>
    BY <1>3 DEF OpenModal
  <2>2. SFTypeOK' /\ Elsewhere(a) /\ apc'[a] = "clear" /\ got'[a] = got[a]
    BY <1>1, <1>2, <2>1, GoesOn, TypesStay DEF PCs
  <2> QED
    BY <1>1, <1>2, <2>2, Aside DEF Outside, marks
<1>4. CASE KeyOnEntry /\ a = "tui"
  <2>1. /\ Goto(a, "toggle") \/ Goto(a, "remove") \/ Goto(a, "edit")
        /\ UNCHANGED <<stage, todo, got>>
    BY <1>4 DEF KeyOnEntry
  <2>2. PICK f \in listed : target' = [target EXCEPT ![a] = f]
    BY <1>4 DEF KeyOnEntry
  <2>3. f \in Files /\ target'[a] = f
    BY <1>2, <2>2 DEF SFTypeOK
  <2>4. PICK pc \in {"toggle", "remove", "edit"} : Goto(a, pc)
    BY <2>1
  <2>5. SFTypeOK' /\ Elsewhere(a) /\ apc'[a] = pc /\ got'[a] = got[a]
    BY <1>1, <1>2, <2>1, <2>2, <2>3, <2>4, GoesOn, TypesStay DEF PCs
  <2> QED
    BY <1>1, <1>2, <2>3, <2>5, Aside DEF Outside, marks
<1>5. CASE ToolCall(a)
  <2>1. (\E for \in {"show", "find"} : StartScan(a, for)) /\ UNCHANGED target
    BY <1>5 DEF ToolCall
  <2>2. PICK for \in {"show", "find"} : StartScan(a, for)
    BY <2>1
  <2>3. /\ SFTypeOK' /\ Elsewhere(a)
        /\ apc'[a] = "scan" /\ stage'[a] = for /\ got'[a] = << >>
    BY <1>1, <1>2, <2>1, <2>2, ScanStarts, TypesStay
  <2> QED
    BY <1>1, <1>2, <2>3, Aside DEF marks
<1> QED
  BY <1>3, <1>4, <1>5

\* An entry for the next file is added to what a scan has found.
LEMMA ScanGoesOn ==
  ASSUME NEW a \in Managers, SFTypeOK, Scanning(a), Locals(a), todo[a] # {},
         NEW entry \in Entry, entry.file = Next1(a),
         todo'[a] = todo[a] \ {Next1(a)}, got'[a] = Append(got[a], entry)
  PROVE  /\ Next1(a) \in todo[a] /\ Next1(a) \in Files
         /\ \A i, j \in 1 .. Len(got'[a]) : i < j => got'[a][i].file < got'[a][j].file
         /\ \A i \in 1 .. Len(got'[a]) : \A f \in todo'[a] : got'[a][i].file < f
         /\ \A g, x : Found1(a, g, x)' <=> Found1(a, g, x) \/ (g = entry.file /\ x = entry.id)
         /\ \A g : (\E i \in 1 .. Len(got'[a]) : got'[a][i].enabled /\ got'[a][i].file = g)
                   <=> \/ \E i \in 1 .. Len(got[a]) : got[a][i].enabled /\ got[a][i].file = g
                       \/ entry.enabled /\ g = entry.file
         /\ \A i \in 1 .. Len(got[a]) : got[a][i].file # Next1(a)
<1> DEFINE f == Next1(a)
<1>1. /\ got[a] \in Seq(Entry) /\ todo[a] \in SUBSET Files /\ Files \subseteq Nat
      /\ f \in todo[a] /\ f \in Files /\ \A g \in todo[a] : f <= g
  BY NextIsLeast, FilesAssumption DEF SFTypeOK, Next1
<1> HIDE DEF f
<1>2. /\ Len(got[a]) \in Nat /\ Len(got'[a]) = Len(got[a]) + 1
      /\ got'[a][Len(got[a]) + 1] = entry
      /\ \A i \in 1 .. Len(got[a]) : got'[a][i] = got[a][i]
  BY <1>1
<1>3. /\ \A i \in 1 .. Len(got[a]) : got[a][i].file \in Nat
      /\ \A i, j \in 1 .. Len(got[a]) : i < j => got[a][i].file < got[a][j].file
      /\ \A i \in 1 .. Len(got[a]) : \A g \in todo[a] : got[a][i].file < g
  BY FoundTypes DEF Locals
<1>4. \A i \in 1 .. Len(got[a]) : got[a][i].file # f
  <2> TAKE i \in 1 .. Len(got[a])
  <2>1. got[a][i].file < f /\ f \in Nat /\ got[a][i].file \in Nat
    BY <1>1, <1>3
  <2> QED
    BY <2>1
<1>5. entry.file = f
  BY DEF f
<1>6. ASSUME NEW i \in 1 .. Len(got'[a]), NEW j \in 1 .. Len(got'[a]), i < j
      PROVE  got'[a][i].file < got'[a][j].file
  <2>1. i \in 1 .. Len(got[a])
    BY <1>2, <1>6
  <2>2. CASE j \in 1 .. Len(got[a])
    BY <1>2, <1>3, <1>6, <2>1, <2>2
  <2>3. CASE j = Len(got[a]) + 1
    BY <1>1, <1>2, <1>3, <1>5, <2>1, <2>3
  <2> QED
    BY <1>2, <2>2, <2>3
<1>7. ASSUME NEW i \in 1 .. Len(got'[a]), NEW g \in todo'[a]
      PROVE  got'[a][i].file < g
  <2>1. g \in todo[a] /\ g # f /\ g \in Nat /\ f \in Nat /\ f <= g
    BY <1>1 DEF f
  <2>2. CASE i \in 1 .. Len(got[a])
    BY <1>2, <1>3, <2>1, <2>2
  <2>3. CASE i = Len(got[a]) + 1
    BY <1>2, <1>5, <2>1, <2>3
  <2> QED
    BY <1>2, <2>2, <2>3
<1>8. \A i : i \in 1 .. Len(got'[a]) <=> i \in 1 .. Len(got[a]) \/ i = Len(got[a]) + 1
  BY <1>2
<1>9. \A g, x : Found1(a, g, x)' <=> Found1(a, g, x) \/ (g = entry.file /\ x = entry.id)
  BY <1>2, <1>8 DEF Found1
<1>10. \A g : (\E i \in 1 .. Len(got'[a]) : got'[a][i].enabled /\ got'[a][i].file = g)
              <=> \/ \E i \in 1 .. Len(got[a]) : got[a][i].enabled /\ got[a][i].file = g
                  \/ entry.enabled /\ g = entry.file
  BY <1>2, <1>8
<1> QED
  BY <1>1, <1>4, <1>6, <1>7, <1>9, <1>10 DEF f

\* One more file has been looked at, or passed over.
LEMMA Finds ==
  ASSUME NEW a \in Managers, SfInv, Scanning(a), todo[a] # {},
         NEW entry \in Entry, entry.file = Next1(a),
         entry.id # 0 => ~Lost(Next1(a)) /\ entry.id = disk[Next1(a)].id,
         Goto(a, "scan"), Drop(a), got' = [got EXCEPT ![a] = Append(@, entry)],
         UNCHANGED <<disk, engine, stage, target, buf, listed, known, gone, asked, lastID, calls,
                     clashed>>,
         disturbed' \in BOOLEAN,
         \/ disturbed'
         \/ /\ disturbed' = disturbed /\ apc[a] = "scan"
            /\ entry.enabled <=> Next1(a) \in EnabledOnDisk
  PROVE  SfInv'
<1> DEFINE f == Next1(a)
<1>1. InRange /\ SFTypeOK /\ Locals(a)
  BY DEF SfInv, InRange
<1>2. /\ apc' = [apc EXCEPT ![a] = "scan"] /\ apc'[a] = "scan"
      /\ todo' = [todo EXCEPT ![a] = @ \ {f}] /\ todo'[a] = todo[a] \ {f}
      /\ got'[a] = Append(got[a], entry)
  BY <1>1 DEF Goto, Drop, SFTypeOK
<1>3. Elsewhere(a)
  BY <1>1, <1>2 DEF Elsewhere, SFTypeOK
<1>4. /\ f \in todo[a] /\ f \in Files
      /\ \A i, j \in 1 .. Len(got'[a]) : i < j => got'[a][i].file < got'[a][j].file
      /\ \A i \in 1 .. Len(got'[a]) : \A g \in todo'[a] : got'[a][i].file < g
      /\ \A g, x : Found1(a, g, x)' <=> Found1(a, g, x) \/ (g = f /\ x = entry.id)
      /\ \A g : (\E i \in 1 .. Len(got'[a]) : got'[a][i].enabled /\ got'[a][i].file = g)
                <=> \/ \E i \in 1 .. Len(got[a]) : got[a][i].enabled /\ got[a][i].file = g
                    \/ entry.enabled /\ g = f
      /\ \A i \in 1 .. Len(got[a]) : got[a][i].file # f
  BY <1>1, <1>2, ScanGoesOn
<1> HIDE DEF f
<1>5. SFTypeOK'
  <2>1. got' \in [Managers -> Seq(Entry)]
    BY <1>1, GotTypes
  <2>2. todo' \in [Managers -> SUBSET Files] /\ apc' \in [Managers -> PCs]
    BY <1>1, <1>2 DEF SFTypeOK, PCs
  <2> QED
    BY <1>1, <2>1, <2>2 DEF SFTypeOK
<1>6. InRange'
  <2>1. Locals(a)'
    BY <1>2, <1>4 DEF Locals, Scanning, Toggling
  <2>2. \A g \in Files : Lost(g)' => disk'[g].id = 0
    BY <1>1 DEF InRange, Lost
  <2> QED
    BY <1>1, <1>3, <1>5, <2>1, <2>2, RangeKept
<1>7. ~Toggling(a)' /\ ~Writing(a)' /\ Scanning(a)' /\ (Midway(a)' <=> Loading(a)') /\ ~Due(a)'
      /\ (Loading(a)' <=> Loading(a)) /\ (Loading(a) => Midway(a)) /\ ~Due(a)
  BY <1>2 DEF Toggling, Writing, Scanning, Midway, Loading, Due
<1>8. OwnIDs'
  <2>1. ASSUME NEW g \in Files, NEW x \in Nat \ {0},
               disk'[g].id = x \/ known'[g] = x \/ HasName(a, g, x)'
        PROVE  Names(g, x)
    <3>1. HasName(a, g, x)' => Found1(a, g, x) \/ disk[g].id = x
      BY <1>4, <1>7 DEF HasName, f
    <3> QED
      BY <2>1, <3>1 DEF Names
  <2>2. OwnIDs
    BY DEF SfInv
  <2> QED
    BY <1>1, <1>3, <2>1, <2>2, IdsPass
<1>9. Firm'
  <2> SUFFICES ASSUME ~clashed PROVE (\A b \in Managers : Writes1(b)') /\
                         \A g \in Files, x \in Nat : Told(g, x)' => Keeps(g, x)'
    BY DEF Firm
  <2>1. /\ \A b \in Managers : Writes1(b)
        /\ \A g \in Files, x \in Nat : Told(g, x) => Keeps(g, x)
    BY DEF SfInv, Firm
  <2>2. ASSUME NEW b \in Managers PROVE Writes1(b)'
    <3>1. CASE b = a
      BY <1>2, <1>7, <3>1 DEF Writes1
    <3>2. CASE b # a
      <4>1. /\ apc'[b] = apc[b] /\ target'[b] = target[b] /\ buf'[b] = buf[b]
            /\ Next1(b)' = Next1(b) /\ (Writing(b)' <=> Writing(b))
        BY <1>3, <3>2, OthersStay DEF Elsewhere
      <4>2. \A c \in Managers : Writing(c)' => Writing(c)
        BY <1>3, <1>7, OthersStay
      <4> QED
        BY <2>1, <4>1, <4>2 DEF Writes1, Lost
    <3> QED
      BY <3>1, <3>2
  <2>3. ASSUME NEW g \in Files, NEW x \in Nat, Told(g, x)' PROVE Keeps(g, x)'
    <3>1. Told(g, x) \/ (g = f /\ x = entry.id /\ x # 0)
      <4>1. ASSUME NEW b \in Managers, Scanning(b)', Found1(b, g, x)'
            PROVE  (Scanning(b) /\ Found1(b, g, x)) \/ (g = f /\ x = entry.id)
        <5>1. CASE b = a
          BY <1>4, <4>1, <5>1
        <5>2. CASE b # a
          BY <1>3, <4>1, <5>2, OthersStay
        <5> QED
          BY <5>1, <5>2
      <4> QED
        BY <2>3, <4>1 DEF Told
    <3>2. /\ Lost(g) \/ disk[g].id = x
          /\ disk[g].st = "none" => g \in gone
          /\ \A b \in Managers \ {a} :
               /\ apc[b] \in {"truncate", "backfill"} => Next1(b) # g
               /\ apc[b] = "fill" => target[b] # g
               /\ Toggling(b) /\ target[b] = g => buf[b].id = x
      <4>1. CASE Told(g, x)
        BY <2>1, <4>1 DEF Keeps
      <4>2. CASE g = f /\ x = entry.id /\ x # 0
        <5>1. ~Lost(g) /\ disk[g].id = x
          BY <4>2 DEF f
        <5>2. disk[g].st # "none"
          BY <5>1 DEF Lost
        <5>3. ASSUME NEW b \in Managers
              PROVE  /\ apc[b] \in {"truncate", "backfill"} => Next1(b) # g
                     /\ apc[b] = "fill" => target[b] # g
                     /\ Toggling(b) /\ target[b] = g => buf[b].id = x
          BY <2>1, <4>2, <5>1 DEF Writes1, Toggling
        <5> QED
          BY <5>1, <5>2, <5>3
      <4> QED
        BY <3>1, <4>1, <4>2
    <3>3. ASSUME NEW b \in Managers
          PROVE  /\ apc'[b] \in {"truncate", "backfill"} => Next1(b)' # g
                 /\ apc'[b] = "fill" => target'[b] # g
                 /\ Toggling(b)' /\ target'[b] = g => buf'[b].id = x
      <4>1. CASE b = a
        BY <1>2, <1>7, <4>1
      <4>2. CASE b # a
        <5>1. apc'[b] = apc[b] /\ target'[b] = target[b] /\ buf'[b] = buf[b]
              /\ Next1(b)' = Next1(b) /\ (Toggling(b)' <=> Toggling(b))
          BY <1>3, <4>2, OthersStay DEF Elsewhere
        <5> QED
          BY <3>2, <4>2, <5>1
      <4> QED
        BY <4>1, <4>2
    <3> QED
      BY <3>2, <3>3 DEF Keeps, Lost
  <2> QED
    BY <2>2, <2>3
<1>10. InStep'
  <2> SUFFICES ASSUME ~disturbed' PROVE Ordered' /\ ((\A b \in Managers : ~Due(b)') => Current')
    BY DEF InStep
  <2>1. /\ ~disturbed /\ apc[a] = "scan" /\ (entry.enabled <=> f \in EnabledOnDisk)
        /\ Ordered /\ ((\A b \in Managers : ~Due(b)) => Current)
    BY DEF SfInv, InStep, f
  <2>2. \A b \in Managers : (Midway(b)' => Midway(b)) /\ (Loading(b)' <=> Loading(b))
                            /\ (Due(b)' <=> Due(b))
    BY <1>3, <1>7, OthersStay
  <2>3. Ordered'
    <3>1. "tui" \in Managers /\ apc'["tui"] = "fill" => apc["tui"] = "fill" /\ target'["tui"] = target["tui"]
      BY <1>2, <1>3 DEF Elsewhere
    <3>2. "tui" \in Managers
      BY DEF Managers
    <3> QED
      BY <2>1, <2>2, <3>1, <3>2 DEF Ordered, Lost
  <2>4. ASSUME \A b \in Managers : ~Due(b)' PROVE Current'
    <3>1. Current
      BY <2>1, <2>2, <2>4
    <3>2. ASSUME NEW b \in Managers, b # a
          PROVE  /\ apc'[b] = apc[b] /\ buf'[b] = buf[b] /\ Next1(b)' = Next1(b)
                 /\ todo'[b] = todo[b] /\ got'[b] = got[b] /\ Backfilled(b)' = Backfilled(b)
      <4>1. apc'[b] = apc[b] /\ buf'[b] = buf[b] /\ todo'[b] = todo[b] /\ got'[b] = got[b]
            /\ Next1(b)' = Next1(b)
        BY <1>3, <3>2, OthersStay DEF Elsewhere
      <4> QED
        BY <4>1 DEF Backfilled
    <3>3. EnabledOnDisk' = EnabledOnDisk /\ Loaded' = Loaded
      BY DEF EnabledOnDisk, Loaded
    <3>4. UNION {Backfilled(b)' : b \in Managers} = UNION {Backfilled(b) : b \in Managers}
      <4>1. Backfilled(a)' = {} /\ Backfilled(a) = {}
        BY <1>2, <2>1 DEF Backfilled
      <4>2. \A b \in Managers : Backfilled(b)' = Backfilled(b)
        BY <3>2, <4>1
      <4> QED
        BY <4>2
    <3>5. ASSUME NEW b \in Managers
          PROVE  /\ apc'[b] = "truncate" => disk'[Next1(b)'] = buf'[b]
                 /\ apc'[b] = "backfill" => disk'[Next1(b)'].st = "empty"
                 /\ Loading(b)' => \A g \in Files \ todo'[b] :
                      g \in EnabledOnDisk' <=> \E i \in 1 .. Len(got'[b]) :
                                          got'[b][i].enabled /\ got'[b][i].file = g
      <4>1. CASE b = a
        <5>1. ASSUME Loading(a), NEW g \in Files \ todo'[a]
              PROVE  g \in EnabledOnDisk <=>
                       \/ \E i \in 1 .. Len(got[a]) : got[a][i].enabled /\ got[a][i].file = g
                       \/ entry.enabled /\ g = f
          <6>1. CASE g = f
            BY <1>4, <2>1, <6>1
          <6>2. CASE g # f
            <7>1. g \in Files \ todo[a]
              BY <1>2, <5>1, <6>2
            <7> QED
              BY <3>1, <5>1, <6>2, <7>1 DEF Current
          <6> QED
            BY <6>1, <6>2
        <5>2. ASSUME Loading(a), NEW g \in Files \ todo'[a]
              PROVE  g \in EnabledOnDisk' <=> \E i \in 1 .. Len(got'[a]) :
                                           got'[a][i].enabled /\ got'[a][i].file = g
          <6>1. g \in EnabledOnDisk' <=> g \in EnabledOnDisk
            BY <3>3
          <6>2. (\E i \in 1 .. Len(got'[a]) : got'[a][i].enabled /\ got'[a][i].file = g)
                <=> \/ \E i \in 1 .. Len(got[a]) : got[a][i].enabled /\ got[a][i].file = g
                    \/ entry.enabled /\ g = f
            BY <1>4
          <6> QED
            BY <5>1, <5>2, <6>1, <6>2
        <5>3. apc'[a] = "scan"
          BY <1>2
        <5>4. Loading(a)' <=> Loading(a)
          BY <2>2
        <5> QED
          BY <4>1, <5>2, <5>3, <5>4
      <4>2. CASE b # a
        BY <2>2, <3>1, <3>2, <3>3, <4>2 DEF Current
      <4> QED
        BY <4>1, <4>2
    <3> QED
      BY <2>2, <3>1, <3>3, <3>4, <3>5 DEF Current
  <2> QED
    BY <2>3, <2>4
<1> QED
  BY <1>6, <1>8, <1>9, <1>10 DEF SfInv

\* A file that cannot be read or given an ID is passed over.
LEMMA SkipInv ==
  ASSUME NEW a \in Managers, SfInv, Skip(a)
  PROVE  SfInv'
<1> DEFINE entry == [file |-> Next1(a), id |-> 0, enabled |-> FALSE]
<1>1. /\ Scanning(a) /\ todo[a] # {} /\ Goto(a, "scan") /\ Drop(a) /\ disturbed' /\ clashed' = clashed
      /\ UNCHANGED <<disk, engine, stage, target, buf, listed, known, gone, asked, lastID, calls>>
  BY DEF Skip, Scanning, GoesWrong
<1>2. got' = [got EXCEPT ![a] = Append(@, entry)]
  BY DEF Skip, Found, NoFile
<1>3. Next1(a) \in Files
  BY <1>1, NextIsLeast DEF SfInv, InRange, SFTypeOK, Next1
<1>4. entry \in Entry /\ entry.file = Next1(a) /\ entry.id = 0
  BY <1>3 DEF Entry
<1>5. disturbed' \in BOOLEAN
  BY DEF Skip, GoesWrong
<1> HIDE DEF entry
<1> QED
  BY <1>1, <1>2, <1>4, <1>5, Finds

\* What the history variables promise when a begins to write and nothing went wrong.
LEMMA NobodyBeside ==
  ASSUME NEW a \in Managers, BeginsToWrite(a), Elsewhere(a)
  PROVE  /\ ~clashed' => ~clashed /\ \A b \in Managers : b # a => ~Writing(b) /\ ~Writing(b)'
         /\ ~disturbed' =>
              ~disturbed /\ \A b \in Managers : b # a => /\ ~Midway(b) /\ ~Midway(b)'
                                                         /\ ~Loading(b) /\ ~Loading(b)'
<1>1. \A b \in Managers : Loading(b) => Midway(b)
  BY DEF Loading, Scanning, Midway, Writing
<1> QED
  BY <1>1, OthersStay DEF BeginsToWrite, Others

\* A file was read and is to be rewritten.
LEMMA Begins ==
  ASSUME NEW a \in Managers, SfInv, NEW pc \in {"truncate", "totrunc"}, Goto(a, pc),
         BeginsToWrite(a), NEW c \in Content, c.st = "good", buf' = [buf EXCEPT ![a] = c],
         UNCHANGED <<disk, engine, stage, todo, got, target, listed, known, gone, asked, lastID,
                     calls>>,
         pc = "truncate" => /\ apc[a] = "scan" /\ todo[a] # {}
                            /\ c = disk[Next1(a)] /\ c.id = 0,
         pc = "totrunc" => apc[a] = "toggle" /\ c.id = disk[target[a]].id
                           /\ disk[target[a]].st = "good"
  PROVE  SfInv'
<1>1. InRange /\ SFTypeOK /\ Locals(a)
  BY DEF SfInv, InRange
<1>2. /\ apc' = [apc EXCEPT ![a] = pc] /\ apc'[a] = pc /\ buf'[a] = c
      /\ Next1(a)' = Next1(a) /\ Elsewhere(a)
  BY <1>1 DEF Goto, SFTypeOK, Next1, Elsewhere
<1>3. SFTypeOK'
  <2>1. disturbed' \in BOOLEAN /\ clashed' \in BOOLEAN
    BY <1>1, TypesStay
  <2> QED
    BY <1>1, <1>2, <2>1 DEF SFTypeOK, PCs
<1>4. InRange'
  <2>1. pc = "totrunc" => target[a] \in Files
    BY <1>1 DEF Locals
  <2>2. Locals(a)'
    BY <1>1, <1>2, <2>1 DEF Locals, Scanning, Toggling
  <2>3. \A g \in Files : Lost(g)' => disk'[g].id = 0
    BY <1>1 DEF InRange, Lost
  <2> QED
    BY <1>1, <1>2, <1>3, <2>2, <2>3, RangeKept
<1>5. /\ Scanning(a)' => Scanning(a)
      /\ Loading(a)' => Loading(a)
      /\ ~Due(a)' /\ ~Due(a)
      /\ \A f, x : Found1(a, f, x)' <=> Found1(a, f, x)
  BY <1>2 DEF Scanning, Loading, Due, Found1
<1>6. OwnIDs'
  <2>1. ASSUME NEW g \in Files, NEW x \in Nat \ {0},
               disk'[g].id = x \/ known'[g] = x \/ HasName(a, g, x)'
        PROVE  Names(g, x)
    <3>1. HasName(a, g, x)' => Found1(a, g, x) \/ disk[g].id = x
      BY <1>2, <1>5 DEF HasName, Toggling
    <3> QED
      BY <2>1, <3>1 DEF Names
  <2>2. OwnIDs
    BY DEF SfInv
  <2> QED
    BY <1>1, <1>2, <2>1, <2>2, IdsPass
<1>7. Firm'
  <2> SUFFICES ASSUME ~clashed' PROVE (\A b \in Managers : Writes1(b)') /\
                         \A g \in Files, x \in Nat : Told(g, x)' => Keeps(g, x)'
    BY DEF Firm
  <2>1. /\ \A b \in Managers : b # a => ~Writing(b) /\ ~Writing(b)'
        /\ \A g \in Files, x \in Nat : Told(g, x) => Keeps(g, x)
    BY <1>2, NobodyBeside DEF SfInv, Firm
  <2>2. ASSUME NEW b \in Managers PROVE Writes1(b)'
    <3>1. CASE b = a
      BY <1>2, <2>1, <3>1 DEF Writes1
    <3>2. CASE b # a
      BY <2>1, <3>2 DEF Writes1, Writing
    <3> QED
      BY <3>1, <3>2
  <2>3. ASSUME NEW g \in Files, NEW x \in Nat, Told(g, x)' PROVE Keeps(g, x)'
    <3>1. Told(g, x) /\ x # 0
      <4>1. ASSUME NEW b \in Managers, Scanning(b)', Found1(b, g, x)'
            PROVE  Scanning(b) /\ Found1(b, g, x)
        BY <1>2, <1>5, <4>1, OthersStay
      <4> QED
        BY <2>3, <4>1 DEF Told
    <3>2. Keeps(g, x)
      BY <2>1, <3>1
    <3>3. ASSUME NEW b \in Managers
          PROVE  /\ apc'[b] \in {"truncate", "backfill"} => Next1(b)' # g
                 /\ apc'[b] = "fill" => target'[b] # g
                 /\ Toggling(b)' /\ target'[b] = g => buf'[b].id = x
      <4>1. CASE b = a
        <5>1. ASSUME apc'[a] = "truncate" PROVE Next1(a) # g
          <6>1. c = disk[Next1(a)] /\ c.id = 0 /\ c.st = "good"
            BY <1>2, <5>1
          <6> QED
            BY <3>1, <3>2, <6>1 DEF Keeps, Lost
        <5>2. ASSUME apc'[a] = "totrunc", target[a] = g PROVE c.id = x
          <6>1. c.id = disk[g].id /\ disk[g].st = "good"
            BY <1>2, <5>2
          <6> QED
            BY <3>2, <6>1 DEF Keeps, Lost
        <5> QED
          BY <1>2, <4>1, <5>1, <5>2 DEF Toggling
      <4>2. CASE b # a
        BY <2>1, <4>2 DEF Writing, Toggling
      <4> QED
        BY <4>1, <4>2
    <3> QED
      BY <3>2, <3>3 DEF Keeps, Lost
  <2> QED
    BY <2>2, <2>3
<1>8. InStep'
  <2> SUFFICES ASSUME ~disturbed' PROVE Ordered' /\ ((\A b \in Managers : ~Due(b)') => Current')
    BY DEF InStep
  <2>1. /\ ~disturbed
        /\ \A b \in Managers : b # a => ~Midway(b) /\ ~Midway(b)' /\ ~Loading(b) /\ ~Loading(b)'
        /\ Ordered /\ ((\A b \in Managers : ~Due(b)) => Current)
    BY <1>2, NobodyBeside DEF SfInv, InStep
  <2>2. Ordered'
    <3>1. "tui" \in Managers /\ apc'["tui"] # "fill"
      BY <1>2, <2>1 DEF Managers, Midway, Writing
    <3> QED
      BY <1>5, <2>1, <3>1 DEF Ordered
  <2>3. ASSUME \A b \in Managers : ~Due(b)' PROVE Current'
    <3>1. Current
      BY <1>2, <1>5, <2>1, <2>3, OthersStay
    <3>2. \A b \in Managers : Backfilled(b)' = {} /\ Backfilled(b) = {}
      BY <1>2, <2>1 DEF Backfilled, Midway, Writing
    <3>3. EnabledOnDisk' = EnabledOnDisk /\ Loaded' = Loaded
      BY DEF EnabledOnDisk, Loaded
    <3>4. UNION {Backfilled(b)' : b \in Managers} = UNION {Backfilled(b) : b \in Managers}
      BY <3>2
    <3>5. ASSUME NEW b \in Managers
          PROVE  /\ apc'[b] = "truncate" => disk'[Next1(b)'] = buf'[b]
                 /\ apc'[b] = "backfill" => disk'[Next1(b)'].st = "empty"
                 /\ Loading(b)' => \A g \in Files \ todo'[b] :
                      g \in EnabledOnDisk' <=> \E i \in 1 .. Len(got'[b]) :
                                          got'[b][i].enabled /\ got'[b][i].file = g
      <4>1. CASE b = a
        BY <1>2, <1>5, <3>1, <3>3, <4>1 DEF Current
      <4>2. CASE b # a
        BY <2>1, <4>2 DEF Midway, Writing
      <4> QED
        BY <4>1, <4>2
    <3>6. (\A b \in Managers : ~Loading(b)') => \A b \in Managers : ~Loading(b)
      BY <1>2, <2>1 DEF Loading, Scanning
    <3> QED
      BY <3>1, <3>3, <3>4, <3>5, <3>6 DEF Current
  <2> QED
    BY <2>2, <2>3
<1> QED
  BY <1>4, <1>6, <1>7, <1>8 DEF SfInv

\* One more file is read.
LEMMA ReadScriptInv ==
  ASSUME NEW a \in Managers, SfInv, ReadScript(a)
  PROVE  SfInv'
<1> DEFINE f == Next1(a)
           c == disk[f]
<1>1. /\ apc[a] = "scan" /\ todo[a] # {} /\ Scanning(a) /\ SFTypeOK
      /\ UNCHANGED <<disk, engine, op, stage, target, listed, known, gone, asked, lastID, calls>>
  BY DEF ReadScript, Scanning, SfInv, InRange
<1>2. f \in Files /\ c \in Content
  BY <1>1, NextIsLeast DEF SFTypeOK, Next1
<1>3. apc' = [apc EXCEPT ![a] = "scan"] => Goto(a, "scan")
  BY DEF Goto
<1>4. CASE c.st # "good" /\ Drop(a) /\ Found(a, NoFile) /\ UNCHANGED <<apc, buf, marks>>
  <2> DEFINE entry == [file |-> f, id |-> 0, enabled |-> FALSE]
  <2>1. /\ entry \in Entry /\ entry.file = Next1(a) /\ entry.id = 0 /\ ~entry.enabled
        /\ got' = [got EXCEPT ![a] = Append(@, entry)]
    BY <1>2, <1>4 DEF Entry, Found, NoFile
  <2>2. f \notin EnabledOnDisk
    BY <1>4 DEF EnabledOnDisk
  <2>3. Goto(a, "scan") /\ disturbed' = disturbed /\ clashed' = clashed /\ disturbed' \in BOOLEAN
    BY <1>1, <1>4 DEF Goto, SFTypeOK, marks
  <2> HIDE DEF entry
  <2> QED
    BY <1>1, <1>4, <2>1, <2>2, <2>3, Finds
<1>5. CASE c.st = "good" /\ c.id # 0 /\ Drop(a) /\ Found(a, c) /\ UNCHANGED <<apc, buf, marks>>
  <2> DEFINE entry == [file |-> f, id |-> c.id, enabled |-> c.enabled]
  <2>1. /\ entry \in Entry /\ entry.file = Next1(a) /\ entry.id = c.id
        /\ entry.enabled = c.enabled
        /\ got' = [got EXCEPT ![a] = Append(@, entry)]
    BY <1>2, <1>5, Fields1 DEF Found
  <2>2. (f \in EnabledOnDisk <=> c.enabled) /\ ~Lost(f)
    BY <1>2, <1>5 DEF EnabledOnDisk, Lost
  <2>3. Goto(a, "scan") /\ disturbed' = disturbed /\ clashed' = clashed /\ disturbed' \in BOOLEAN
    BY <1>1, <1>5 DEF Goto, SFTypeOK, marks
  <2>4. entry.id = disk[Next1(a)].id /\ (entry.enabled <=> Next1(a) \in EnabledOnDisk)
    BY <2>1, <2>2
  <2> HIDE DEF entry
  <2> QED
    BY <1>1, <1>5, <2>1, <2>2, <2>3, <2>4, Finds
<1>6. CASE /\ c.st = "good" /\ c.id = 0 /\ Goto(a, "truncate")
           /\ buf' = [buf EXCEPT ![a] = c] /\ BeginsToWrite(a) /\ UNCHANGED <<todo, got>>
  BY <1>1, <1>2, <1>6, Begins
<1> QED
  BY <1>4, <1>5, <1>6 DEF ReadScript

\* The file to be toggled is read, or cannot be.
LEMMA ToggleReadInv ==
  ASSUME NEW a \in Managers, SfInv, ToggleRead(a)
  PROVE  SfInv'
<1> DEFINE c == disk[target[a]]
           d == [c EXCEPT !.enabled = ~@]
<1>1. /\ apc[a] = "toggle" /\ SFTypeOK /\ target[a] \in Files /\ ~Due(a) /\ ~Loading(a)
      /\ UNCHANGED <<disk, engine, op, target, listed, known, gone, asked, lastID, calls>>
  BY DEF ToggleRead, SfInv, InRange, Locals, Due, Loading, Scanning
<1>2. c \in Content
  BY <1>1 DEF SFTypeOK
<1>3. CASE /\ c.st = "good" /\ buf' = [buf EXCEPT ![a] = d]
           /\ Goto(a, "totrunc") /\ BeginsToWrite(a) /\ UNCHANGED <<stage, todo, got>>
  <2>1. d \in Content /\ d.st = "good" /\ d.id = c.id
    BY <1>2, <1>3 DEF Content
  <2>2. buf' = [buf EXCEPT ![a] = d]
    BY <1>3
  <2> HIDE DEF d
  <2> QED
    BY <1>1, <1>3, <2>1, <2>2, Begins
<1>4. CASE Fails(a) /\ UNCHANGED <<buf, marks>>
  <2>1. CASE StartScan(a, "show")
    BY <1>1, <1>4, <2>1, ScanStarts, TypesStay, Aside DEF marks
  <2>2. CASE Goto(a, "idle") /\ UNCHANGED <<stage, todo, got>>
    BY <1>1, <1>4, <2>2, GoesOn, TypesStay, Aside DEF marks, Outside, PCs
  <2> QED
    BY <1>4, <2>1, <2>2 DEF Fails, Finish
<1> QED
  BY <1>3, <1>4 DEF ToggleRead

\* The rewrite of a toggled file fails.
LEMMA ToggleFailsInv ==
  ASSUME NEW a \in Managers, SfInv, ToggleFails(a)
  PROVE  SfInv'
<1>1. /\ SFTypeOK /\ Fails(a) /\ disturbed' /\ UNCHANGED clashed /\ GoesWrong
      /\ UNCHANGED <<disk, engine, op, target, buf, listed, known, gone, asked, lastID, calls>>
  BY DEF ToggleFails, SfInv, InRange, GoesWrong
<1>2. disturbed' \in BOOLEAN /\ clashed' \in BOOLEAN
  BY <1>1, TypesStay
<1>3. CASE StartScan(a, "show")
  BY <1>1, <1>2, <1>3, ScanStarts, TypesStay, Aside
<1>4. CASE Goto(a, "idle") /\ UNCHANGED <<stage, todo, got>>
  BY <1>1, <1>2, <1>4, GoesOn, TypesStay, Aside DEF Outside, PCs
<1> QED
  BY <1>1, <1>3, <1>4 DEF Fails, Finish

-----------------------------------------------------------------------------
(* Steps that change a file.                                               *)

\* What the directory is after file h was changed.
LEMMA FileChanges ==
  ASSUME SFTypeOK, NEW h \in Files, NEW c \in Content, disk' = [disk EXCEPT ![h] = c]
  PROVE  /\ disk' \in [Files -> Content] /\ disk'[h] = c
         /\ \A g \in Files : g # h => disk'[g] = disk[g]
  BY DEF SFTypeOK

\* IDs stay in range when one file's does.
LEMMA RangeOfIDs ==
  ASSUME InRange, NEW h \in Files, \A g \in Files : g # h => disk'[g] = disk[g],
         disk'[h].id <= lastID', lastID' = lastID \/ lastID' = lastID + 1,
         Lost(h)' => disk'[h].id = 0
  PROVE  /\ \A g \in Files : disk'[g].id <= lastID'
         /\ \A g \in Files : Lost(g)' => disk'[g].id = 0
         /\ lastID' \in Nat
<1>1. /\ lastID \in Nat /\ lastID' \in Nat /\ lastID <= lastID'
      /\ \A g \in Files : disk[g].id \in Nat /\ disk[g].id <= lastID
  <2>1. lastID \in Nat /\ \A g \in Files : disk[g] \in Content /\ disk[g].id <= lastID
    BY DEF InRange, SFTypeOK
  <2>2. \A c \in Content : c.id \in Nat
    BY DEF Content
  <2>3. lastID' \in Nat /\ lastID <= lastID'
    BY <2>1
  <2> QED
    BY <2>1, <2>2, <2>3
<1>2. \A g \in Files : Lost(g) => disk[g].id = 0
  BY DEF InRange
<1>3. ASSUME NEW g \in Files PROVE disk'[g].id <= lastID' /\ (Lost(g)' => disk'[g].id = 0)
  <2>1. CASE g = h
    BY <2>1
  <2>2. CASE g # h
    BY <1>1, <1>2, <2>2 DEF Lost
  <2> QED
    BY <2>1, <2>2
<1> QED
  BY <1>1, <1>3

\* What is told stays what it was when nothing more is found or told.
LEMMA ToldStays ==
  ASSUME NEW a \in Managers, Elsewhere(a), known' = known,
         \/ got'[a] = got[a] /\ (Scanning(a)' => Scanning(a))
         \/ got'[a] = << >>
  PROVE  \A f, x : Told(f, x)' => Told(f, x)
<1> SUFFICES ASSUME NEW f, NEW x, Told(f, x)' PROVE Told(f, x)
  OBVIOUS
<1>1. ASSUME NEW b \in Managers, Scanning(b)', Found1(b, f, x)'
      PROVE  Scanning(b) /\ Found1(b, f, x)
  <2>1. CASE b = a
    BY <1>1, <2>1 DEF Found1
  <2>2. CASE b # a
    BY <1>1, <2>2, OthersStay
  <2> QED
    BY <2>1, <2>2
<1> QED
  BY <1>1 DEF Told

\* What a manager is about to change is a file.
LEMMA AtFiles ==
  ASSUME InRange, NEW a \in Managers
  PROVE  /\ apc[a] \in {"truncate", "backfill"} => Next1(a) \in Files /\ Next1(a) \in todo[a]
         /\ apc[a] \in {"totrunc", "towrite", "remove", "fill", "edit"} => target[a] \in Files
<1>1. Locals(a) /\ todo[a] \in SUBSET Files
  BY DEF InRange, SFTypeOK
<1> QED
  BY <1>1, NextIsLeast DEF Locals, Next1

\* A step of a that changes file h: what is told stays true.
LEMMA FirmStep ==
  ASSUME NEW a \in Managers, NEW h \in Files, InRange, Firm, Elsewhere(a), clashed' = clashed,
         \A g \in Files : g # h => disk'[g] = disk[g] /\ (g \in gone => g \in gone'),
         Writing(a)' => Writing(a), apc'[a] \notin {"truncate", "fill", "totrunc"},
         apc'[a] = "backfill" => /\ apc[a] = "truncate" /\ Next1(a) = h /\ Next1(a)' = h
                                 /\ disk'[h].st = "empty",
         apc'[a] = "towrite" => /\ apc[a] = "totrunc" /\ target[a] = h /\ Lost(h)'
                                /\ target'[a] = h /\ buf'[a] = buf[a],
         Writing(a) \/ (Lost(h)' /\ h \in gone' /\ disk'[h].id = 0),
         \A f \in Files, x \in Nat :
           Told(f, x)' => Told(f, x) \/ (f = h /\ Writing(a) /\ apc'[a] = "scan"),
         ~clashed => \A x \in Nat : Told(h, x)' => /\ Lost(h)' \/ disk'[h].id = x
                                                   /\ disk'[h].st = "none" => h \in gone'
  PROVE  Firm'
<1> SUFFICES ASSUME ~clashed PROVE (\A b \in Managers : Writes1(b)') /\
                       \A g \in Files, x \in Nat : Told(g, x)' => Keeps(g, x)'
  BY DEF Firm
<1>1. /\ \A b \in Managers : Writes1(b)
      /\ \A g \in Files, x \in Nat : Told(g, x) => Keeps(g, x)
  BY DEF Firm
<1>2. \A b \in Managers : Writing(b)' => Writing(b)
  BY OthersStay
<1>3. Writing(a) => \A b \in Managers : b # a => ~Writing(b) /\ ~Writing(b)'
  BY <1>1, OthersStay DEF Writes1
<1>4. ASSUME NEW b \in Managers, b # a
      PROVE  /\ apc'[b] = apc[b] /\ target'[b] = target[b] /\ buf'[b] = buf[b]
             /\ Next1(b)' = Next1(b) /\ (Writing(b)' <=> Writing(b))
             /\ (Toggling(b)' <=> Toggling(b)) /\ (Toggling(b) => Writing(b))
  BY <1>4, OthersStay DEF Elsewhere, Toggling, Writing
<1>5. ASSUME NEW b \in Managers PROVE Writes1(b)'
  <2>1. \A d \in Managers : Writing(b)' /\ Writing(d)' => b = d
    BY <1>1, <1>2 DEF Writes1
  <2>2. CASE b = a
    BY <2>1, <2>2 DEF Writes1, Lost, Toggling
  <2>3. CASE b # a /\ Writing(a)
    BY <1>3, <2>3 DEF Writes1, Writing
  <2>4. CASE b # a /\ ~Writing(a)
    <3>1. /\ \A g \in Files : \/ disk'[g].id = disk[g].id /\ (Lost(g)' <=> Lost(g))
                                 /\ (disk'[g].st = "none" <=> disk[g].st = "none")
                                 /\ (g \in gone => g \in gone')
                              \/ Lost(g)' /\ g \in gone' /\ disk'[g].id = 0
      BY <2>4 DEF Lost
    <3>2. Writes1(b)
      BY <1>1
    <3>3. /\ apc[b] \in {"truncate", "backfill"} => Next1(b) \in Files
          /\ apc[b] \in {"totrunc", "towrite", "fill"} => target[b] \in Files
      BY AtFiles
    <3>4. apc[b] = "truncate" => disk'[Next1(b)].id = 0
      BY <3>1, <3>2, <3>3 DEF Writes1
    <3>5. apc[b] = "backfill" => /\ Lost(Next1(b))
                                 /\ disk[Next1(b)].st = "none" => Next1(b) \in gone
      BY <3>2 DEF Writes1
    <3>6. ASSUME apc[b] = "backfill", NEW g, g = Next1(b)
          PROVE  disk'[g].st \in {"none", "empty"} /\ (disk'[g].st = "none" => g \in gone')
      <4>1. g \in Files /\ Lost(g) /\ (disk[g].st = "none" => g \in gone)
        BY <3>3, <3>5, <3>6
      <4>2. CASE Lost(g)' /\ g \in gone'
        BY <4>2 DEF Lost
      <4>3. CASE (Lost(g)' <=> Lost(g)) /\ (disk'[g].st = "none" <=> disk[g].st = "none")
                 /\ (g \in gone => g \in gone')
        BY <4>1, <4>3 DEF Lost
      <4> QED
        BY <3>1, <4>1, <4>2, <4>3
    <3>7. apc[b] = "totrunc" => LET g == target[b] IN
                                  disk'[g].st \in {"none", "empty"} \/ disk'[g].id = buf[b].id
      BY <3>1, <3>2, <3>3 DEF Lost, Writes1
    <3>8. apc[b] \in {"towrite", "fill"} => LET g == target[b] IN disk'[g].st \in {"none", "empty"}
      BY <3>1, <3>2, <3>3 DEF Lost, Writes1
    <3> QED
      BY <1>4, <2>1, <2>4, <3>4, <3>6, <3>7, <3>8 DEF Writes1, Lost
  <2> QED
    BY <2>2, <2>3, <2>4
<1>6. ASSUME NEW g \in Files, NEW x \in Nat, Told(g, x)' PROVE Keeps(g, x)'
  <2>1. /\ Lost(g)' \/ disk'[g].id = x
        /\ disk'[g].st = "none" => g \in gone'
    <3>1. CASE g = h
      BY <1>6, <3>1
    <3>2. CASE g # h
      <4>1. Keeps(g, x)
        BY <1>1, <1>6, <3>2
      <4> QED
        BY <3>2, <4>1 DEF Keeps, Lost
    <3> QED
      BY <3>1, <3>2
  <2>2. ASSUME NEW b \in Managers
        PROVE  /\ apc'[b] \in {"truncate", "backfill"} => Next1(b)' # g
               /\ apc'[b] = "fill" => target'[b] # g
               /\ Toggling(b)' /\ target'[b] = g => buf'[b].id = x
    <3>1. CASE Told(g, x)
      <4>1. Keeps(g, x)
        BY <1>1, <3>1
      <4>2. CASE b = a
        BY <4>1, <4>2 DEF Keeps, Toggling
      <4>3. CASE b # a
        BY <1>4, <4>1, <4>3 DEF Keeps
      <4> QED
        BY <4>2, <4>3
    <3>2. CASE g = h /\ Writing(a) /\ apc'[a] = "scan"
      <4>1. CASE b = a
        BY <3>2, <4>1 DEF Toggling
      <4>2. CASE b # a
        BY <1>3, <3>2, <4>2 DEF Writing, Toggling
      <4> QED
        BY <4>1, <4>2
    <3> QED
      BY <1>6, <3>1, <3>2
  <2> QED
    BY <2>1, <2>2 DEF Keeps
<1> QED
  BY <1>5, <1>6

\* A step of a that changes file h, after which a is to reload.
LEMMA DueStep ==
  ASSUME NEW a \in Managers, NEW h \in Files, InRange, InStep, Elsewhere(a),
         disturbed' = disturbed, engine' = engine, target' = target,
         \A g \in Files : g # h => disk'[g] = disk[g],
         Due(a)', Midway(a)' => Midway(a), a = "tui" \/ Midway(a) \/ Lost(h)'
  PROVE  InStep'
<1> SUFFICES ASSUME ~disturbed PROVE Ordered'
  BY DEF InStep
<1>1. Ordered
  BY DEF InStep
<1>2. ~Loading(a)' /\ apc'[a] # "fill"
  BY DEF Due, Loading, Scanning
<1>3. \A b \in Managers : (Midway(b)' => Midway(b)) /\ (Loading(b)' => Loading(b))
  BY <1>2, OthersStay
<1>4. ASSUME apc'["tui"] = "fill" PROVE Lost(target["tui"])'
  <2>1. "tui" \in Managers /\ a # "tui"
    BY <1>2, <1>4 DEF Managers
  <2>2. apc["tui"] = "fill" /\ Midway("tui")
    BY <1>4, <2>1 DEF Elsewhere, Midway, Writing
  <2>3. Lost(h)' /\ Lost(target["tui"])
    BY <1>1, <2>1, <2>2 DEF Ordered
  <2>4. CASE target["tui"] = h
    BY <2>3, <2>4
  <2>5. CASE target["tui"] \in Files \ {h}
    BY <2>3, <2>5 DEF Lost
  <2>6. target["tui"] \in Files
    BY <2>1, <2>2, AtFiles
  <2> QED
    BY <2>4, <2>5, <2>6
<1> QED
  BY <1>1, <1>3, <1>4 DEF Ordered

\* A toggled file is truncated.
LEMMA ToggleTruncateInv ==
  ASSUME NEW a \in Managers, SfInv, ToggleTruncate(a)
  PROVE  SfInv'
<1>0. PICK f : f = target[a]
  OBVIOUS
<1>1. /\ apc[a] = "totrunc" /\ Goto(a, "towrite") /\ disk' = [disk EXCEPT ![f] = EmptyFile]
      /\ UNCHANGED <<engine, op, stage, todo, got, target, buf, listed, known, gone, asked,
                     lastID, calls, marks>>
  BY <1>0 DEF ToggleTruncate, Moves, Truncate
<1>2. /\ InRange /\ SFTypeOK /\ OwnIDs /\ Firm /\ InStep /\ f \in Files /\ Locals(a)
      /\ disturbed' = disturbed /\ clashed' = clashed
  BY <1>0, <1>1, AtFiles DEF SfInv, InRange, marks
<1>3. EmptyFile \in Content /\ EmptyFile.st = "empty" /\ EmptyFile.id = 0
  BY Fields1
<1>4. /\ disk' \in [Files -> Content] /\ disk'[f] = EmptyFile
      /\ \A g \in Files : g # f => disk'[g] = disk[g]
  BY <1>1, <1>2, <1>3, FileChanges
<1>5. /\ apc' = [apc EXCEPT ![a] = "towrite"] /\ apc'[a] = "towrite" /\ Elsewhere(a)
  BY <1>1, <1>2 DEF Goto, SFTypeOK, Elsewhere
<1>6. Lost(f)' /\ disk'[f].id = 0
  BY <1>3, <1>4 DEF Lost
<1>7. InRange'
  <2>1. 0 <= lastID' /\ lastID' = lastID
    BY <1>1, <1>2 DEF SFTypeOK
  <2>2. /\ \A g \in Files : disk'[g].id <= lastID'
        /\ \A g \in Files : Lost(g)' => disk'[g].id = 0
    BY <1>2, <1>4, <1>6, <2>1, RangeOfIDs
  <2>3. SFTypeOK'
    BY <1>1, <1>2, <1>4, <1>5, <2>2 DEF SFTypeOK, PCs
  <2>4. Locals(a)'
    BY <1>0, <1>1, <1>2, <1>5 DEF Locals, Scanning, Toggling
  <2> QED
    BY <1>2, <1>5, <2>2, <2>3, <2>4, RangeKept
<1>8. OwnIDs'
  <2>1. ASSUME NEW g \in Files, NEW x \in Nat \ {0},
               disk'[g].id = x \/ known'[g] = x \/ HasName(a, g, x)'
        PROVE  Names(g, x)
    <3>1. HasName(a, g, x)' => HasName(a, g, x)
      BY <1>1, <1>5 DEF HasName, Found1, Toggling
    <3> QED
      BY <1>1, <1>4, <1>6, <2>1, <3>1 DEF Names, HasName
  <2> QED
    BY <1>1, <1>2, <1>5, <2>1, IdsPass
<1>9. Firm'
  <2>1. \A g, x : Told(g, x)' => Told(g, x)
    BY <1>1, <1>5, ToldStays DEF Scanning
  <2>2. Writing(a) /\ f = target[a]
    BY <1>0, <1>1 DEF Writing
  <2> QED
    BY <1>1, <1>2, <1>3, <1>4, <1>5, <1>6, <2>1, <2>2, FirmStep
<1>10. InStep'
  <2>1. Midway(a) /\ Due(a)'
    BY <1>1, <1>5 DEF Midway, Writing, Due
  <2> QED
    BY <1>1, <1>2, <1>4, <1>5, <2>1, DueStep
<1> QED
  BY <1>7, <1>8, <1>9, <1>10 DEF SfInv

\* A toggled file is written back; the engine is cleared next.
LEMMA ToggleWriteInv ==
  ASSUME NEW a \in Managers, SfInv, ToggleWrite(a)
  PROVE  SfInv'
<1>0. PICK f, c : f = target[a] /\ c = IF disk[f].st = "none" THEN disk[f] ELSE buf[a]
  OBVIOUS
<1>1. /\ apc[a] = "towrite" /\ Goto(a, "clear") /\ disk' = [disk EXCEPT ![f] = c]
      /\ UNCHANGED <<engine, op, stage, todo, got, target, buf, listed, known, gone, asked,
                     lastID, calls, marks>>
  BY <1>0 DEF ToggleWrite, Moves, WriteOpen
<1>2. /\ InRange /\ SFTypeOK /\ OwnIDs /\ Firm /\ InStep /\ f \in Files /\ Locals(a)
      /\ disturbed' = disturbed /\ clashed' = clashed
  BY <1>0, <1>1, AtFiles DEF SfInv, InRange, marks
<1>3. disk[f] \in Content /\ buf[a] \in Content /\ c \in Content /\ buf[a].st = "good"
      /\ (disk[f].st = "none" => disk[f].id = 0)
  BY <1>0, <1>1, <1>2 DEF SFTypeOK, Locals, Toggling, InRange, Lost
<1>4. /\ c.st = "none" => disk[f].st = "none" /\ c.id = 0
      /\ c.st # "none" => c.st = "good" /\ c = buf[a]
  BY <1>0, <1>3
<1>5. /\ disk' \in [Files -> Content] /\ disk'[f] = c
      /\ \A g \in Files : g # f => disk'[g] = disk[g]
  BY <1>1, <1>2, <1>3, FileChanges
<1>6. /\ apc' = [apc EXCEPT ![a] = "clear"] /\ apc'[a] = "clear" /\ Elsewhere(a)
  BY <1>1, <1>2 DEF Goto, SFTypeOK, Elsewhere
<1>7. HasName(a, f, buf[a].id) /\ buf[a].id \in Nat
  BY <1>0, <1>1, <1>3 DEF HasName, Toggling, Content
<1>8. c.id # 0 => c.id = buf[a].id /\ Names(f, c.id) /\ c.id <= lastID
  <2>1. ASSUME c.id # 0 PROVE c.id = buf[a].id /\ Names(f, c.id)
    BY <1>4, <1>7, <2>1 DEF Names, HasName
  <2> QED
    BY <1>2, <1>7, <2>1 DEF OwnIDs
<1>9. InRange'
  <2>1. disk'[f].id <= lastID' /\ lastID' = lastID /\ (Lost(f)' => disk'[f].id = 0)
    BY <1>1, <1>2, <1>4, <1>5, <1>8 DEF SFTypeOK, Lost
  <2>2. /\ \A g \in Files : disk'[g].id <= lastID'
        /\ \A g \in Files : Lost(g)' => disk'[g].id = 0
    BY <1>2, <1>5, <2>1, RangeOfIDs
  <2>3. SFTypeOK'
    BY <1>1, <1>2, <1>5, <1>6, <2>2 DEF SFTypeOK, PCs
  <2>4. Locals(a)'
    BY <1>6 DEF Locals, Scanning, Toggling
  <2> QED
    BY <1>2, <1>6, <2>2, <2>3, <2>4, RangeKept
<1>10. OwnIDs'
  <2>1. ASSUME NEW g \in Files, NEW x \in Nat \ {0},
               disk'[g].id = x \/ known'[g] = x \/ HasName(a, g, x)'
        PROVE  Names(g, x)
    <3>1. HasName(a, g, x)' => HasName(a, g, x)
      BY <1>1, <1>6 DEF HasName, Found1, Toggling
    <3>2. disk'[g].id = x => Names(g, x)
      BY <1>5, <1>8 DEF Names
    <3> QED
      BY <1>1, <2>1, <3>1, <3>2 DEF Names, HasName
  <2> QED
    BY <1>1, <1>2, <1>6, <2>1, IdsPass
<1>11. Firm'
  <2>1. \A g, x : Told(g, x)' => Told(g, x)
    BY <1>1, <1>6, ToldStays DEF Scanning
  <2>2. Writing(a) /\ ~Writing(a)'
    BY <1>1, <1>6 DEF Writing
  <2>3. ASSUME ~clashed, NEW x \in Nat, Told(f, x)'
        PROVE  /\ Lost(f)' \/ disk'[f].id = x
               /\ disk'[f].st = "none" => f \in gone'
    <3>1. Keeps(f, x)
      BY <1>2, <2>1, <2>3 DEF Firm
    <3>2. buf[a].id = x /\ (disk[f].st = "none" => f \in gone)
      BY <1>0, <1>1, <3>1 DEF Keeps, Toggling
    <3> QED
      BY <1>1, <1>4, <1>5, <3>2 DEF Lost
  <2> QED
    BY <1>1, <1>2, <1>5, <1>6, <2>1, <2>2, <2>3, FirmStep
<1>12. InStep'
  <2>1. Midway(a) /\ ~Midway(a)' /\ Due(a)'
    BY <1>1, <1>6 DEF Midway, Writing, Due
  <2> QED
    BY <1>1, <1>2, <1>5, <1>6, <2>1, DueStep
<1> QED
  BY <1>9, <1>10, <1>11, <1>12 DEF SfInv

\* A file is removed, or is not there.
LEMMA RemoveInv ==
  ASSUME NEW a \in Managers, SfInv, Remove(a)
  PROVE  SfInv'
<1>0. PICK f : f = target[a]
  OBVIOUS
<1>1. /\ apc[a] = "remove" /\ disturbed' = disturbed /\ clashed' = clashed
      /\ UNCHANGED <<engine, op, target, buf, listed, known, asked, lastID, calls>>
  BY DEF Remove, marks
<1>2. /\ InRange /\ SFTypeOK /\ OwnIDs /\ Firm /\ InStep /\ f \in Files /\ Locals(a)
      /\ ~Due(a) /\ ~Loading(a)
  BY <1>0, <1>1, AtFiles DEF SfInv, InRange, Due, Loading, Scanning
<1>3. CASE /\ disk' = [disk EXCEPT ![f] = NoFile] /\ gone' = gone \cup {f}
           /\ Goto(a, "clear") /\ UNCHANGED <<stage, todo, got>>
  <2>1. NoFile \in Content /\ NoFile.st = "none" /\ NoFile.id = 0
    BY Fields1
  <2>2. /\ disk' \in [Files -> Content] /\ disk'[f] = NoFile
        /\ \A g \in Files : g # f => disk'[g] = disk[g]
    BY <1>2, <1>3, <2>1, FileChanges
  <2>3. /\ apc' = [apc EXCEPT ![a] = "clear"] /\ apc'[a] = "clear" /\ Elsewhere(a)
    BY <1>1, <1>2, <1>3 DEF Goto, SFTypeOK, Elsewhere
  <2>4. Lost(f)' /\ disk'[f].id = 0
    BY <2>1, <2>2 DEF Lost
  <2>5. InRange'
    <3>1. 0 <= lastID' /\ lastID' = lastID
      BY <1>1, <1>2 DEF SFTypeOK
    <3>2. /\ \A g \in Files : disk'[g].id <= lastID'
          /\ \A g \in Files : Lost(g)' => disk'[g].id = 0
      BY <1>2, <2>2, <2>4, <3>1, RangeOfIDs
    <3>3. SFTypeOK'
      BY <1>1, <1>2, <1>3, <2>2, <2>3, <3>2 DEF SFTypeOK, PCs
    <3>4. Locals(a)'
      BY <2>3 DEF Locals, Scanning, Toggling
    <3> QED
      BY <1>2, <2>3, <3>2, <3>3, <3>4, RangeKept
  <2>6. OwnIDs'
    <3>1. ASSUME NEW g \in Files, NEW x \in Nat \ {0},
                 disk'[g].id = x \/ known'[g] = x \/ HasName(a, g, x)'
          PROVE  Names(g, x)
      <4>1. HasName(a, g, x)' => HasName(a, g, x)
        BY <1>1, <1>3, <2>3 DEF HasName, Found1, Toggling
      <4> QED
        BY <1>1, <2>2, <2>4, <3>1, <4>1 DEF Names, HasName
    <3> QED
      BY <1>1, <1>2, <2>3, <3>1, IdsPass
  <2>7. Firm'
    <3>1. \A g, x : Told(g, x)' => Told(g, x)
      BY <1>1, <1>3, <2>3, ToldStays DEF Scanning
    <3>2. ~Writing(a)' /\ f \in gone' /\ \A g \in gone : g \in gone'
      BY <1>3, <2>3 DEF Writing
    <3> QED
      BY <1>1, <1>2, <2>2, <2>3, <2>4, <3>1, <3>2, FirmStep
  <2>8. InStep'
    <3>1. ~Midway(a)' /\ Due(a)'
      BY <2>3 DEF Midway, Writing, Due
    <3> QED
      BY <1>1, <1>2, <2>2, <2>3, <2>4, <3>1, DueStep
  <2> QED
    BY <2>5, <2>6, <2>7, <2>8 DEF SfInv
<1>4. CASE Fails(a) /\ UNCHANGED <<disk, gone>>
  <2>1. disturbed' \in BOOLEAN /\ clashed' \in BOOLEAN
    BY <1>1, <1>2 DEF SFTypeOK
  <2>2. CASE StartScan(a, "show")
    BY <1>1, <1>2, <1>4, <2>1, <2>2, ScanStarts, TypesStay, Aside
  <2>3. CASE Goto(a, "idle") /\ UNCHANGED <<stage, todo, got>>
    BY <1>1, <1>2, <1>4, <2>1, <2>3, GoesOn, TypesStay, Aside DEF Outside, PCs
  <2> QED
    BY <1>4, <2>2, <2>3 DEF Fails, Finish
<1> QED
  BY <1>0, <1>3, <1>4 DEF Remove

\* A file without an ID is truncated.
LEMMA TruncateForIDInv ==
  ASSUME NEW a \in Managers, SfInv, TruncateForID(a)
  PROVE  SfInv'
<1>0. PICK f : f = Next1(a)
  OBVIOUS
<1>1. /\ apc[a] = "truncate" /\ Goto(a, "backfill") /\ disk' = [disk EXCEPT ![f] = EmptyFile]
      /\ UNCHANGED <<engine, op, stage, todo, got, target, buf, listed, known, gone, asked,
                     lastID, calls, marks>>
  BY <1>0 DEF TruncateForID, Moves, Truncate
<1>2. /\ InRange /\ SFTypeOK /\ OwnIDs /\ Firm /\ InStep /\ Locals(a)
      /\ f \in Files /\ f \in todo[a] /\ Next1(a)' = f
      /\ disturbed' = disturbed /\ clashed' = clashed
  BY <1>0, <1>1, AtFiles DEF SfInv, InRange, marks, Next1
<1>3. EmptyFile \in Content /\ EmptyFile.st = "empty" /\ EmptyFile.id = 0
  BY Fields1
<1>4. /\ disk' \in [Files -> Content] /\ disk'[f] = EmptyFile
      /\ \A g \in Files : g # f => disk'[g] = disk[g]
  BY <1>1, <1>2, <1>3, FileChanges
<1>5. /\ apc' = [apc EXCEPT ![a] = "backfill"] /\ apc'[a] = "backfill" /\ Elsewhere(a)
  BY <1>1, <1>2 DEF Goto, SFTypeOK, Elsewhere
<1>6. Lost(f)' /\ disk'[f].id = 0
  BY <1>3, <1>4 DEF Lost
<1>7. InRange'
  <2>1. 0 <= lastID' /\ lastID' = lastID
    BY <1>1, <1>2 DEF SFTypeOK
  <2>2. /\ \A g \in Files : disk'[g].id <= lastID'
        /\ \A g \in Files : Lost(g)' => disk'[g].id = 0
    BY <1>2, <1>4, <1>6, <2>1, RangeOfIDs
  <2>3. SFTypeOK'
    BY <1>1, <1>2, <1>4, <1>5, <2>2 DEF SFTypeOK, PCs
  <2>4. Locals(a)'
    BY <1>1, <1>2, <1>5 DEF Locals, Scanning, Toggling
  <2> QED
    BY <1>2, <1>5, <2>2, <2>3, <2>4, RangeKept
<1>8. OwnIDs'
  <2>1. ASSUME NEW g \in Files, NEW x \in Nat \ {0},
               disk'[g].id = x \/ known'[g] = x \/ HasName(a, g, x)'
        PROVE  Names(g, x)
    <3>1. HasName(a, g, x)' => HasName(a, g, x)
      BY <1>1, <1>5 DEF HasName, Found1, Toggling
    <3> QED
      BY <1>1, <1>4, <1>6, <2>1, <3>1 DEF Names, HasName
  <2> QED
    BY <1>1, <1>2, <1>5, <2>1, IdsPass
<1>9. Firm'
  <2>1. \A g, x : Told(g, x)' => Told(g, x)
    BY <1>1, <1>5, ToldStays DEF Scanning
  <2>2. Writing(a)
    BY <1>1 DEF Writing
  <2> QED
    BY <1>0, <1>1, <1>2, <1>3, <1>4, <1>5, <1>6, <2>1, <2>2, FirmStep
<1>10. InStep'
  <2> SUFFICES ASSUME ~disturbed PROVE Ordered' /\ ((\A b \in Managers : ~Due(b)') => Current')
    BY <1>2 DEF InStep
  <2>1. Ordered /\ ((\A b \in Managers : ~Due(b)) => Current)
    BY <1>2 DEF InStep
  <2>2. /\ Midway(a) /\ (Loading(a)' <=> Loading(a)) /\ Midway(a)' /\ ~Due(a) /\ ~Due(a)'
    BY <1>1, <1>5 DEF Midway, Writing, Loading, Scanning, Due
  <2>3. \A b \in Managers : b # a => ~Midway(b) /\ ~Midway(b)' /\ ~Loading(b) /\ ~Loading(b)'
    BY <1>5, <2>1, <2>2, OthersStay DEF Ordered, Loading, Scanning, Midway, Writing
  <2>4. Ordered'
    <3>1. "tui" \in Managers /\ apc'["tui"] # "fill"
      BY <1>5, <2>3 DEF Managers, Midway, Writing
    <3> QED
      BY <1>1, <2>1, <2>2, <2>3, <3>1 DEF Ordered
  <2>5. ASSUME \A b \in Managers : ~Due(b)' PROVE Current'
    <3>1. Current
      BY <1>5, <2>1, <2>2, <2>5, OthersStay
    <3>2. disk[f] = buf[a] /\ buf[a].st = "good" /\ buf'[a] = buf[a]
      BY <1>0, <1>1, <1>2, <3>1 DEF Current, Locals
    <3>3. /\ f \notin EnabledOnDisk' /\ (f \in EnabledOnDisk <=> buf[a].enabled)
          /\ \A g \in Files : g # f => (g \in EnabledOnDisk' <=> g \in EnabledOnDisk)
      BY <1>2, <1>3, <1>4, <3>2 DEF EnabledOnDisk
    <3>4. \A b \in Managers : Backfilled(b) = {} /\ (b # a => Backfilled(b)' = {})
      BY <1>1, <2>3 DEF Backfilled, Midway, Writing
    <3>5. Backfilled(a)' = IF buf[a].enabled THEN {f} ELSE {}
      BY <1>2, <1>5, <3>2 DEF Backfilled
    <3>6. UNION {Backfilled(b) : b \in Managers} = {}
      BY <3>4
    <3>7. UNION {Backfilled(b)' : b \in Managers} = Backfilled(a)'
      BY <3>4
    <3>8. EnabledOnDisk' \cup Backfilled(a)' = EnabledOnDisk
      <4>1. EnabledOnDisk \subseteq Files /\ EnabledOnDisk' \subseteq Files
        BY DEF EnabledOnDisk
      <4> QED
        BY <1>2, <3>3, <3>5, <4>1
    <3>9. ASSUME Loading(a)', NEW g \in Files \ todo'[a]
          PROVE  g \in EnabledOnDisk' <=> \E i \in 1 .. Len(got'[a]) :
                                            got'[a][i].enabled /\ got'[a][i].file = g
      BY <1>1, <1>2, <2>2, <3>1, <3>3, <3>9 DEF Current
    <3>10. disk'[f].st = "empty"
      BY <1>3, <1>4
    <3> QED
      <4>1. ASSUME NEW b \in Managers
            PROVE  /\ apc'[b] = "truncate" => disk'[Next1(b)'] = buf'[b]
                   /\ apc'[b] = "backfill" => disk'[Next1(b)'].st = "empty"
                   /\ Loading(b)' => \A g \in Files \ todo'[b] :
                        g \in EnabledOnDisk' <=> \E i \in 1 .. Len(got'[b]) :
                                            got'[b][i].enabled /\ got'[b][i].file = g
        <5>1. CASE b = a
          BY <1>2, <1>5, <3>9, <3>10, <5>1
        <5>2. CASE b # a
          BY <2>3, <5>2 DEF Midway, Writing
        <5> QED
          BY <5>1, <5>2
      <4>2. ASSUME \A b \in Managers : ~Loading(b)'
            PROVE  Loaded' = EnabledOnDisk' \cup UNION {Backfilled(b)' : b \in Managers}
        <5>1. \A b \in Managers : ~Loading(b)
          BY <2>2, <2>3, <4>2
        <5>2. Loaded = EnabledOnDisk
          BY <3>1, <3>6, <5>1 DEF Current
        <5>3. Loaded' = Loaded
          BY <1>1 DEF Loaded
        <5> QED
          BY <3>7, <3>8, <5>2, <5>3
      <4> QED
        BY <4>1, <4>2 DEF Current
  <2> QED
    BY <2>4, <2>5
<1> QED
  BY <1>7, <1>8, <1>9, <1>10 DEF SfInv

\* The file is written back with an ID.
LEMMA BackfillInv ==
  ASSUME NEW a \in Managers, SfInv, Backfill(a)
  PROVE  SfInv'
<1>0. PICK f, n, d, c, entry :
        /\ f = Next1(a) /\ n = lastID + 1 /\ d = [buf[a] EXCEPT !.id = n]
        /\ c = (IF disk[f].st = "none" THEN disk[f] ELSE d)
        /\ entry = [file |-> f, id |-> d.id, enabled |-> d.enabled]
  OBVIOUS
<1>1. /\ apc[a] = "backfill" /\ Goto(a, "scan") /\ lastID' = n
      /\ disk' = [disk EXCEPT ![f] = c]
      /\ got' = [got EXCEPT ![a] = Append(@, entry)] /\ Drop(a)
      /\ UNCHANGED <<engine, op, stage, target, buf, listed, known, gone, asked, calls, marks>>
  BY <1>0 DEF Backfill, Moves, WriteOpen, Found
<1>2. /\ InRange /\ SFTypeOK /\ OwnIDs /\ Firm /\ InStep /\ Locals(a)
      /\ f \in Files /\ f \in todo[a]
      /\ disturbed' = disturbed /\ clashed' = clashed
  BY <1>0, <1>1, AtFiles DEF SfInv, InRange, marks
<1>3. /\ n \in Nat /\ lastID \in Nat /\ n = lastID + 1 /\ disk[f] \in Content
      /\ d \in Content /\ d.st = "good" /\ d.id = n /\ d.enabled = buf[a].enabled
  <2>1. buf[a] \in Content /\ lastID \in Nat /\ disk[f] \in Content /\ buf[a].st = "good"
    BY <1>1, <1>2 DEF SFTypeOK, Locals
  <2>2. PICK b : b = buf[a]
    OBVIOUS
  <2>3. n \in Nat /\ n = lastID + 1
    BY <1>0, <2>1
  <2>4. b \in Content /\ b.st = "good" /\ d = [b EXCEPT !.id = n]
    BY <1>0, <2>1, <2>2
  <2>5. d \in Content /\ d.st = "good" /\ d.id = n /\ d.enabled = b.enabled
    BY <2>3, <2>4 DEF Content
  <2> QED
    BY <2>1, <2>2, <2>3, <2>5
<1>4. /\ c \in Content
      /\ c.st = "none" => disk[f].st = "none" /\ c.id = 0
      /\ c.st # "none" => c = d
      /\ disk[f].st # "none" => c = d
  BY <1>0, <1>2, <1>3 DEF InRange, Lost
<1>5. entry \in Entry /\ entry.file = f /\ entry.id = n /\ entry.enabled = d.enabled
  BY <1>0, <1>2, <1>3, Fields1
<1>6. /\ disk' \in [Files -> Content] /\ disk'[f] = c
      /\ \A g \in Files : g # f => disk'[g] = disk[g]
  BY <1>1, <1>2, <1>4, FileChanges
<1>7. /\ apc' = [apc EXCEPT ![a] = "scan"] /\ apc'[a] = "scan"
      /\ todo' = [todo EXCEPT ![a] = @ \ {f}] /\ todo'[a] = todo[a] \ {f}
      /\ got'[a] = Append(got[a], entry) /\ stage'[a] = stage[a] /\ Elsewhere(a)
  BY <1>0, <1>1, <1>2 DEF Goto, Drop, SFTypeOK, Elsewhere
<1>8. /\ \A i, j \in 1 .. Len(got'[a]) : i < j => got'[a][i].file < got'[a][j].file
      /\ \A i \in 1 .. Len(got'[a]) : \A g \in todo'[a] : got'[a][i].file < g
      /\ \A g, x : Found1(a, g, x)' <=> Found1(a, g, x) \/ (g = f /\ x = n)
      /\ \A g : (\E i \in 1 .. Len(got'[a]) : got'[a][i].enabled /\ got'[a][i].file = g)
                <=> \/ \E i \in 1 .. Len(got[a]) : got[a][i].enabled /\ got[a][i].file = g
                    \/ entry.enabled /\ g = f
      /\ \A i \in 1 .. Len(got[a]) : got[a][i].file # f
  <2>1. Scanning(a) /\ todo[a] # {} /\ f = Next1(a)
    BY <1>0, <1>1, <1>2 DEF Scanning
  <2>2. todo'[a] = todo[a] \ {Next1(a)} /\ got'[a] = Append(got[a], entry)
    BY <1>7, <2>1
  <2>3. SFTypeOK /\ Locals(a) /\ entry \in Entry /\ entry.file = Next1(a)
    BY <1>2, <1>5, <2>1
  <2>4. /\ \A i, j \in 1 .. Len(got'[a]) : i < j => got'[a][i].file < got'[a][j].file
        /\ \A i \in 1 .. Len(got'[a]) : \A g \in todo'[a] : got'[a][i].file < g
        /\ \A g, x : Found1(a, g, x)' <=> Found1(a, g, x) \/ (g = entry.file /\ x = entry.id)
        /\ \A g : (\E i \in 1 .. Len(got'[a]) : got'[a][i].enabled /\ got'[a][i].file = g)
                  <=> \/ \E i \in 1 .. Len(got[a]) : got[a][i].enabled /\ got[a][i].file = g
                      \/ entry.enabled /\ g = entry.file
        /\ \A i \in 1 .. Len(got[a]) : got[a][i].file # Next1(a)
    BY <2>1, <2>2, <2>3, ScanGoesOn
  <2> QED
    BY <1>5, <2>1, <2>4
<1>9. InRange'
  <2>1. disk'[f].id <= lastID' /\ (lastID' = lastID \/ lastID' = lastID + 1)
    BY <1>1, <1>3, <1>4, <1>6
  <2>2. Lost(f)' => disk'[f].id = 0
    BY <1>3, <1>4, <1>6 DEF Lost
  <2>3. /\ \A g \in Files : disk'[g].id <= lastID'
        /\ \A g \in Files : Lost(g)' => disk'[g].id = 0
    BY <1>2, <1>6, <2>1, <2>2, RangeOfIDs
  <2>4. got' \in [Managers -> Seq(Entry)]
    BY <1>1, <1>2, <1>5, GotTypes
  <2>5. todo' \in [Managers -> SUBSET Files] /\ apc' \in [Managers -> PCs]
    BY <1>2, <1>7 DEF SFTypeOK, PCs
  <2>6. SFTypeOK'
    BY <1>1, <1>2, <1>3, <1>6, <2>3, <2>4, <2>5 DEF SFTypeOK
  <2>7. Locals(a)'
    BY <1>7, <1>8 DEF Locals, Toggling
  <2> QED
    BY <1>2, <1>7, <2>3, <2>6, <2>7, RangeKept
<1>10. OwnIDs'
  <2>1. ASSUME NEW g \in Files, NEW x \in Nat \ {0},
               disk'[g].id = x \/ known'[g] = x \/ HasName(a, g, x)'
        PROVE  Names(g, x) \/ (g = f /\ x = lastID + 1 /\ lastID' = lastID + 1)
    <3>1. HasName(a, g, x)' => Found1(a, g, x) \/ (g = f /\ x = n)
      BY <1>7, <1>8 DEF HasName, Toggling
    <3>2. disk'[g].id = x => disk[g].id = x \/ (g = f /\ x = n)
      BY <1>3, <1>4, <1>6
    <3> QED
      BY <1>1, <1>3, <2>1, <3>1, <3>2 DEF Names
  <2>2. lastID' = lastID + 1
    BY <1>1, <1>3
  <2> QED
    BY <1>2, <1>7, <2>1, <2>2, IdsPass
<1>11. \A g, x : Told(g, x)' => Told(g, x) \/ (g = f /\ x = n)
  <2> SUFFICES ASSUME NEW g, NEW x, Told(g, x)' PROVE Told(g, x) \/ (g = f /\ x = n)
    OBVIOUS
  <2>1. ASSUME NEW b \in Managers, Scanning(b)', Found1(b, g, x)'
        PROVE  (Scanning(b) /\ Found1(b, g, x)) \/ (g = f /\ x = n)
    <3>1. CASE b = a
      BY <1>1, <1>8, <2>1, <3>1 DEF Scanning
    <3>2. CASE b # a
      BY <1>7, <2>1, <3>2, OthersStay
    <3> QED
      BY <3>1, <3>2
  <2> QED
    BY <1>1, <2>1 DEF Told
<1>12. Firm'
  <2>1. Writing(a) /\ ~Writing(a)'
    BY <1>1, <1>7 DEF Writing
  <2>2. ASSUME ~clashed, NEW x \in Nat, Told(f, x)'
        PROVE  /\ Lost(f)' \/ disk'[f].id = x
               /\ disk'[f].st = "none" => f \in gone'
    <3>1. ~Told(f, x)
      BY <1>0, <1>1, <1>2, <2>2 DEF Firm, Keeps
    <3>2. x = n
      BY <1>11, <2>2, <3>1
    <3>3. disk[f].st = "none" => f \in gone
      BY <1>0, <1>1, <1>2, <2>2 DEF Firm, Writes1
    <3> QED
      BY <1>1, <1>3, <1>4, <1>6, <3>2, <3>3 DEF Lost
  <2>3. \A g \in Files, x \in Nat : Told(g, x)' => Told(g, x)
                                      \/ (g = f /\ Writing(a) /\ apc'[a] = "scan")
    BY <1>7, <1>11, <2>1
  <2>4. \A g \in Files : g # f => disk'[g] = disk[g] /\ (g \in gone => g \in gone')
    BY <1>1, <1>6
  <2> QED
    BY <1>2, <1>7, <2>1, <2>2, <2>3, <2>4, FirmStep
<1>13. InStep'
  <2> SUFFICES ASSUME ~disturbed PROVE Ordered' /\ ((\A b \in Managers : ~Due(b)') => Current')
    BY <1>2 DEF InStep
  <2>1. Ordered /\ ((\A b \in Managers : ~Due(b)) => Current)
    BY <1>2 DEF InStep
  <2>2. /\ Midway(a) /\ (Loading(a)' <=> Loading(a)) /\ ~Due(a) /\ ~Due(a)'
        /\ (Midway(a)' <=> Loading(a)')
    BY <1>1, <1>7 DEF Midway, Writing, Loading, Scanning, Due
  <2>3. \A b \in Managers : b # a => ~Midway(b) /\ ~Midway(b)' /\ ~Loading(b) /\ ~Loading(b)'
    BY <1>7, <2>1, <2>2, OthersStay DEF Ordered, Loading, Scanning, Midway, Writing
  <2>4. Ordered'
    <3>1. "tui" \in Managers /\ apc'["tui"] # "fill"
      BY <1>7, <2>3 DEF Managers, Midway, Writing
    <3> QED
      BY <1>1, <2>1, <2>2, <2>3, <3>1 DEF Ordered
  <2>5. ASSUME \A b \in Managers : ~Due(b)' PROVE Current'
    <3>1. Current
      BY <1>7, <2>1, <2>2, <2>5, OthersStay
    <3>2. disk[f].st = "empty" /\ disk'[f] = d
      BY <1>0, <1>1, <1>4, <1>6, <3>1 DEF Current
    <3>3. /\ f \notin EnabledOnDisk /\ (f \in EnabledOnDisk' <=> d.enabled)
          /\ \A g \in Files : g # f => (g \in EnabledOnDisk' <=> g \in EnabledOnDisk)
      BY <1>2, <1>3, <1>6, <3>2 DEF EnabledOnDisk
    <3>4. \A b \in Managers : Backfilled(b)' = {} /\ (b # a => Backfilled(b) = {})
      BY <1>7, <2>3 DEF Backfilled, Midway, Writing
    <3>5. Backfilled(a) = IF d.enabled THEN {f} ELSE {}
      BY <1>0, <1>1, <1>2, <1>3 DEF Backfilled
    <3>6. UNION {Backfilled(b)' : b \in Managers} = {}
      BY <3>4
    <3>7. UNION {Backfilled(b) : b \in Managers} = Backfilled(a)
      BY <3>4
    <3>8. EnabledOnDisk \cup Backfilled(a) = EnabledOnDisk'
      <4>1. EnabledOnDisk \subseteq Files /\ EnabledOnDisk' \subseteq Files
        BY DEF EnabledOnDisk
      <4>2. d.enabled \in BOOLEAN
        BY <1>3, Fields1
      <4> QED
        BY <1>2, <3>3, <3>5, <4>1, <4>2
    <3>9. ASSUME Loading(a), NEW g \in Files \ todo'[a]
          PROVE  g \in EnabledOnDisk' <=>
                   \/ \E i \in 1 .. Len(got[a]) : got[a][i].enabled /\ got[a][i].file = g
                   \/ entry.enabled /\ g = f
      <4>1. CASE g = f
        BY <1>5, <1>8, <3>3, <4>1
      <4>2. CASE g # f
        <5>1. g \in Files \ todo[a]
          BY <1>7, <3>9, <4>2
        <5> QED
          BY <3>1, <3>3, <3>9, <4>2, <5>1 DEF Current
      <4> QED
        BY <4>1, <4>2
    <3>10. ASSUME NEW b \in Managers
           PROVE  /\ apc'[b] = "truncate" => disk'[Next1(b)'] = buf'[b]
                  /\ apc'[b] = "backfill" => disk'[Next1(b)'].st = "empty"
                  /\ Loading(b)' => \A g \in Files \ todo'[b] :
                       g \in EnabledOnDisk' <=> \E i \in 1 .. Len(got'[b]) :
                                           got'[b][i].enabled /\ got'[b][i].file = g
      <4>1. CASE b = a
        <5>1. ASSUME Loading(a)', NEW g \in Files \ todo'[a]
              PROVE  g \in EnabledOnDisk' <=> \E i \in 1 .. Len(got'[a]) :
                                                got'[a][i].enabled /\ got'[a][i].file = g
          <6>1. g \in EnabledOnDisk' <=>
                  \/ \E i \in 1 .. Len(got[a]) : got[a][i].enabled /\ got[a][i].file = g
                  \/ entry.enabled /\ g = f
            BY <2>2, <3>9, <5>1
          <6> QED
            BY <1>8, <6>1
        <5> QED
          BY <1>7, <4>1, <5>1
      <4>2. CASE b # a
        BY <2>3, <4>2 DEF Midway, Writing
      <4> QED
        BY <4>1, <4>2
    <3>11. ASSUME \A b \in Managers : ~Loading(b)'
           PROVE  Loaded' = EnabledOnDisk' \cup UNION {Backfilled(b)' : b \in Managers}
      <4>1. \A b \in Managers : ~Loading(b)
        BY <2>2, <2>3, <3>11
      <4>2. Loaded = EnabledOnDisk \cup Backfilled(a)
        BY <3>1, <3>7, <4>1 DEF Current
      <4>3. Loaded' = Loaded
        BY <1>1 DEF Loaded
      <4> QED
        BY <3>6, <3>8, <4>2, <4>3
    <3> QED
      BY <3>10, <3>11 DEF Current
  <2> QED
    BY <2>4, <2>5
<1> QED
  BY <1>9, <1>10, <1>12, <1>13 DEF SfInv

\* A new script is written; a reload or the editor follows.
LEMMA WritesInv ==
  ASSUME NEW a \in Managers, SfInv, NEW c \in Content, c.st = "good",
         NEW after \in {"edit", "clear"}, Writes(a, c, after), asked' \subseteq Files,
         \/ c.id = 0 /\ lastID' = lastID
         \/ c.id = lastID + 1 /\ lastID' = lastID + 1
  PROVE  SfInv'
<1>0. PICK f, d : f = target[a] /\ d = IF disk[f].st = "none" THEN disk[f] ELSE c
  OBVIOUS
<1>1. /\ apc[a] = "fill" /\ Goto(a, after) /\ disk' = [disk EXCEPT ![f] = d]
      /\ UNCHANGED <<engine, op, stage, todo, got, target, buf, listed, known, gone, calls, marks>>
  BY <1>0 DEF Writes, Moves, WriteOpen
<1>2. /\ InRange /\ SFTypeOK /\ OwnIDs /\ Firm /\ InStep /\ f \in Files /\ Locals(a)
      /\ disturbed' = disturbed /\ clashed' = clashed /\ lastID \in Nat
  BY <1>0, <1>1, AtFiles DEF SfInv, InRange, marks, SFTypeOK
<1>3. /\ d \in Content
      /\ d.st = "none" => disk[f].st = "none" /\ d.id = 0
      /\ d.st # "none" => d = c
  BY <1>0, <1>2 DEF InRange, Lost, SFTypeOK
<1>4. /\ disk' \in [Files -> Content] /\ disk'[f] = d
      /\ \A g \in Files : g # f => disk'[g] = disk[g]
  BY <1>1, <1>2, <1>3, FileChanges
<1>5. /\ apc' = [apc EXCEPT ![a] = after] /\ apc'[a] = after /\ Elsewhere(a)
  BY <1>1, <1>2 DEF Goto, SFTypeOK, Elsewhere
<1>6. InRange'
  <2>1. disk'[f].id <= lastID' /\ (lastID' = lastID \/ lastID' = lastID + 1)
    BY <1>2, <1>3, <1>4
  <2>2. Lost(f)' => disk'[f].id = 0
    BY <1>3, <1>4 DEF Lost
  <2>3. /\ \A g \in Files : disk'[g].id <= lastID'
        /\ \A g \in Files : Lost(g)' => disk'[g].id = 0
        /\ lastID' \in Nat
    BY <1>2, <1>4, <2>1, <2>2, RangeOfIDs
  <2>4. SFTypeOK'
    BY <1>1, <1>2, <1>4, <1>5, <2>3 DEF SFTypeOK, PCs
  <2>5. Locals(a)'
    BY <1>0, <1>1, <1>2, <1>5 DEF Locals, Scanning, Toggling
  <2> QED
    BY <1>2, <1>5, <2>3, <2>4, <2>5, RangeKept
<1>7. OwnIDs'
  <2>1. ASSUME NEW g \in Files, NEW x \in Nat \ {0},
               disk'[g].id = x \/ known'[g] = x \/ HasName(a, g, x)'
        PROVE  Names(g, x) \/ (g = f /\ x = lastID + 1 /\ lastID' = lastID + 1)
    <3>1. HasName(a, g, x)' => HasName(a, g, x)
      BY <1>1, <1>5 DEF HasName, Found1, Toggling
    <3>2. disk'[g].id = x => disk[g].id = x \/ (g = f /\ x = lastID + 1 /\ lastID' = lastID + 1)
      BY <1>3, <1>4
    <3> QED
      BY <1>1, <2>1, <3>1, <3>2 DEF Names, HasName
  <2>2. lastID' = lastID \/ lastID' = lastID + 1
    OBVIOUS
  <2> QED
    BY <1>2, <1>5, <2>1, <2>2, IdsPass
<1>8. Firm'
  <2>1. \A g, x : Told(g, x)' => Told(g, x)
    BY <1>1, <1>5, ToldStays DEF Scanning
  <2>2. Writing(a) /\ ~Writing(a)' /\ apc'[a] \notin {"truncate", "fill", "totrunc", "backfill", "towrite"}
    BY <1>1, <1>5 DEF Writing
  <2>3. ~clashed => \A x \in Nat : ~Told(f, x)'
    BY <1>0, <1>1, <1>2, <2>1 DEF Firm, Keeps
  <2> QED
    BY <1>1, <1>2, <1>4, <1>5, <2>1, <2>2, <2>3, FirmStep
<1>9. InStep'
  <2>1. Midway(a) /\ ~Midway(a)' /\ Due(a)'
    BY <1>1, <1>5 DEF Midway, Writing, Due
  <2> QED
    BY <1>1, <1>2, <1>4, <1>5, <2>1, DueStep
<1> QED
  BY <1>6, <1>7, <1>8, <1>9 DEF SfInv

\* The scripts that the TUI and the MCP tools write.
LEMMA FillInv ==
  ASSUME NEW a \in Managers, SfInv, FillTemplate(a) \/ FillMock(a) \/ FillCreate(a)
  PROVE  SfInv'
<1>1. lastID \in Nat /\ asked \subseteq Files
  BY DEF SfInv, InRange, SFTypeOK
<1>2. \A n \in Nat, e \in BOOLEAN : /\ Script(n, e) \in Content /\ Script(n, e).st = "good"
                                    /\ Script(n, e).id = n
  BY Fields1
<1>3. CASE FillTemplate(a)
  <2>1. PICK n, after : /\ n = lastID + 1 /\ after \in {"edit", "clear"}
                        /\ Writes(a, Script(n, TRUE), after)
                        /\ lastID' = lastID + 1 /\ asked' = asked
    BY <1>3 DEF FillTemplate
  <2>2. n \in Nat
    BY <1>1, <2>1
  <2>3. PICK c : c = Script(n, TRUE)
    OBVIOUS
  <2>4. c \in Content /\ c.st = "good" /\ c.id = lastID + 1 /\ Writes(a, c, after)
    BY <1>2, <2>1, <2>2, <2>3
  <2> QED
    BY <1>1, <2>1, <2>4, WritesInv
<1>4. CASE FillMock(a)
  <2>1. PICK c : c = Script(0, TRUE)
    OBVIOUS
  <2>2. c \in Content /\ c.st = "good" /\ c.id = 0
    BY <1>2, <2>1
  <2>3. Writes(a, c, "clear") /\ lastID' = lastID /\ asked' = asked
    BY <1>4, <2>1 DEF FillMock
  <2> QED
    BY <1>1, <2>2, <2>3, WritesInv
<1>5. CASE FillCreate(a)
  <2>1. PICK flag : /\ Writes(a, Script(0, flag = "true"), "clear") /\ lastID' = lastID
                    /\ asked' = IF flag = "omitted" THEN asked \cup {target[a]} ELSE asked
    BY <1>5 DEF FillCreate
  <2>2. PICK c, e : e = (flag = "true") /\ c = Script(0, e)
    OBVIOUS
  <2>3. e \in BOOLEAN
    BY <2>2
  <2>4. c \in Content /\ c.st = "good" /\ c.id = 0 /\ Writes(a, c, "clear")
    BY <1>2, <2>1, <2>2, <2>3
  <2>5. target[a] \in Files
    BY <2>1, AtFiles DEF Writes, Moves, SfInv
  <2>6. asked' \subseteq Files
    BY <1>1, <2>1, <2>5
  <2> QED
    BY <2>1, <2>4, <2>6, WritesInv
<1> QED
  BY <1>3, <1>4, <1>5

\* The write of a new script fails.
LEMMA FillFailsInv ==
  ASSUME NEW a \in Managers, SfInv, FillFails(a)
  PROVE  SfInv'
<1>0. PICK f : f = target[a]
  OBVIOUS
<1>1. /\ apc[a] = "fill" /\ disturbed' = disturbed /\ clashed' = clashed
      /\ UNCHANGED <<engine, op, target, buf, listed, known, gone, asked, lastID, calls, marks>>
      /\ StartScan(a, "show") \/ (Goto(a, "idle") /\ UNCHANGED <<stage, todo, got>>)
  BY DEF FillFails, Finish, marks
<1>2. /\ InRange /\ SFTypeOK /\ OwnIDs /\ Firm /\ InStep /\ f \in Files /\ Locals(a)
      /\ ~Due(a) /\ ~Loading(a) /\ Midway(a) /\ Writing(a) /\ ~Scanning(a)
  BY <1>0, <1>1, AtFiles DEF SfInv, InRange, Due, Loading, Scanning, Midway, Writing
<1>3. CASE disk' = disk
  <2>1. CASE StartScan(a, "show")
    BY <1>1, <1>2, <1>3, <2>1, ScanStarts, TypesStay, Aside
  <2>2. CASE Goto(a, "idle") /\ UNCHANGED <<stage, todo, got>>
    BY <1>1, <1>2, <1>3, <2>2, GoesOn, TypesStay, Aside DEF Outside, PCs
  <2> QED
    BY <1>1, <2>1, <2>2
<1>4. CASE a = "tui" /\ disk' = [disk EXCEPT ![f] = NoFile]
  <2>1. NoFile \in Content /\ NoFile.st = "none" /\ NoFile.id = 0
    BY Fields1
  <2>2. /\ disk' \in [Files -> Content] /\ disk'[f] = NoFile
        /\ \A g \in Files : g # f => disk'[g] = disk[g]
    BY <1>2, <1>4, <2>1, FileChanges
  <2>3. /\ apc' \in [Managers -> PCs] /\ stage' \in [Managers -> {"find", "load", "show"}]
        /\ todo' \in [Managers -> SUBSET Files] /\ got' \in [Managers -> Seq(Entry)]
        /\ Elsewhere(a) /\ apc'[a] \in {"scan", "idle"} /\ (got'[a] = got[a] \/ got'[a] = << >>)
        /\ apc'[a] = "scan" => got'[a] = << >> /\ stage'[a] = "show"
    <3>1. CASE StartScan(a, "show")
      <4>1. /\ apc' = [apc EXCEPT ![a] = "scan"] /\ stage' = [stage EXCEPT ![a] = "show"]
            /\ todo' = [todo EXCEPT ![a] = Present] /\ got' = [got EXCEPT ![a] = << >>]
            /\ Present \subseteq Files
        BY <3>1 DEF StartScan, Goto, Present
      <4>2. got' \in [Managers -> Seq(Entry)]
        BY <1>2, <4>1, GotTypes
      <4> QED
        BY <1>1, <1>2, <4>1, <4>2 DEF SFTypeOK, PCs, Elsewhere
    <3>2. CASE Goto(a, "idle") /\ UNCHANGED <<stage, todo, got>>
      BY <1>1, <1>2, <3>2 DEF SFTypeOK, PCs, Elsewhere, Goto
    <3> QED
      BY <1>1, <3>1, <3>2
  <2>4. Lost(f)' /\ disk'[f].id = 0
    BY <2>1, <2>2 DEF Lost
  <2>5. InRange'
    <3>1. 0 <= lastID' /\ lastID' = lastID
      BY <1>1, <1>2 DEF SFTypeOK
    <3>2. /\ \A g \in Files : disk'[g].id <= lastID'
          /\ \A g \in Files : Lost(g)' => disk'[g].id = 0
      BY <1>2, <2>2, <2>4, <3>1, RangeOfIDs
    <3>3. SFTypeOK'
      BY <1>1, <1>2, <2>2, <2>3, <3>2 DEF SFTypeOK
    <3>4. Locals(a)'
      BY <2>3 DEF Locals, Scanning, Toggling
    <3> QED
      BY <1>2, <2>3, <3>2, <3>3, <3>4, RangeKept
  <2>6. OwnIDs'
    <3>1. ASSUME NEW g \in Files, NEW x \in Nat \ {0},
                 disk'[g].id = x \/ known'[g] = x \/ HasName(a, g, x)'
          PROVE  Names(g, x)
      <4>1. HasName(a, g, x)' => HasName(a, g, x)
        BY <2>3 DEF HasName, Found1, Toggling
      <4> QED
        BY <1>1, <2>2, <2>4, <3>1, <4>1 DEF Names, HasName
    <3> QED
      BY <1>1, <1>2, <2>3, <3>1, IdsPass
  <2>7. Firm'
    <3>1. \A g, x : Told(g, x)' => Told(g, x)
      BY <1>1, <2>3, ToldStays DEF Scanning
    <3>2. ~Writing(a)' /\ apc'[a] \notin {"truncate", "fill", "totrunc", "backfill", "towrite"}
      BY <2>3 DEF Writing
    <3>3. ~clashed => \A x \in Nat : ~Told(f, x)'
      BY <1>0, <1>1, <1>2, <3>1 DEF Firm, Keeps
    <3> QED
      BY <1>1, <1>2, <2>2, <2>3, <3>1, <3>2, <3>3, FirmStep
  <2>8. InStep'
    <3> SUFFICES ASSUME ~disturbed
                 PROVE  Ordered' /\ ((\A b \in Managers : ~Due(b)') => Current')
      BY <1>1 DEF InStep
    <3>1. Ordered /\ ((\A b \in Managers : ~Due(b)) => Current)
      BY <1>2 DEF InStep
    <3>2. ~Midway(a)' /\ ~Loading(a)' /\ apc'[a] # "backfill"
      BY <2>3 DEF Midway, Writing, Loading, Scanning
    <3>3. \A b \in Managers : ~Midway(b)' /\ ~Loading(b)' /\ ~Loading(b)
                              /\ (b # a => ~Midway(b))
      BY <1>2, <2>3, <3>1, <3>2, OthersStay DEF Ordered, Loading, Scanning, Midway, Writing
    <3>4. Ordered'
      BY <1>1, <1>4, <2>3, <3>1, <3>3 DEF Ordered
    <3>5. ASSUME \A b \in Managers : ~Due(b)' PROVE Current'
      <4>1. Current
        BY <1>2, <2>3, <3>1, <3>5, OthersStay
      <4>2. \A b \in Managers : Backfilled(b)' = {} /\ Backfilled(b) = {}
        BY <1>1, <3>2, <3>3 DEF Backfilled, Midway, Writing
      <4>3. disk[f].st # "good" /\ disk'[f].st # "good"
        BY <1>0, <1>1, <1>4, <2>1, <2>2, <3>1 DEF Ordered, Lost
      <4>4. EnabledOnDisk' = EnabledOnDisk /\ Loaded' = Loaded
        BY <1>1, <1>2, <2>2, <4>3 DEF EnabledOnDisk, Loaded
      <4>5. Loaded' = EnabledOnDisk' \cup UNION {Backfilled(b)' : b \in Managers}
        <5>1. UNION {Backfilled(b)' : b \in Managers} = UNION {Backfilled(b) : b \in Managers}
          BY <4>2
        <5> QED
          BY <3>3, <4>1, <4>4, <5>1 DEF Current
      <4>6. \A b \in Managers : apc'[b] \notin {"truncate", "backfill"}
        BY <3>3 DEF Midway, Writing
      <4> QED
        BY <3>3, <4>5, <4>6 DEF Current
    <3> QED
      BY <3>4, <3>5
  <2> QED
    BY <2>5, <2>6, <2>7, <2>8 DEF SfInv
<1> QED
  BY <1>0, <1>3, <1>4 DEF FillFails

\* The user leaves the editor.
LEMMA EditorExitsInv ==
  ASSUME SfInv, EditorExits
  PROVE  SfInv'
<1>0. PICK a, f : a = "tui" /\ f = target[a]
  OBVIOUS
<1>1. /\ apc[a] = "edit" /\ Goto(a, "clear") /\ a \in Managers
      /\ gone' = gone \ {f}
      /\ known' = [known EXCEPT ![f] = IF disk[f].id = @ THEN @ ELSE 0]
      /\ UNCHANGED <<engine, op, stage, todo, got, target, buf, listed, asked, lastID, calls,
                     disturbed>>
  BY <1>0 DEF EditorExits, Moves, Managers
<1>2. PICK s \in {"good", "bad"}, e \in BOOLEAN :
        /\ disk' = [disk EXCEPT ![f] = [st |-> s, id |-> disk[f].id, enabled |-> e]]
        /\ clashed' = \/ clashed
                      \/ /\ disk[f].st \in {"none", "empty"}
                         /\ \E b \in Others(a) : apc[b] # "idle"
  BY <1>0 DEF EditorExits
<1>3. /\ InRange /\ SFTypeOK /\ OwnIDs /\ Firm /\ InStep /\ f \in Files /\ Locals(a)
      /\ disturbed' = disturbed
  BY <1>0, <1>1, AtFiles DEF SfInv, InRange
<1>4. PICK d : d = [st |-> s, id |-> disk[f].id, enabled |-> e]
  OBVIOUS
<1>5. d \in Content /\ d.st \notin {"none", "empty"} /\ d.id = disk[f].id
  BY <1>3, <1>4 DEF SFTypeOK, Content
<1>6. /\ disk' \in [Files -> Content] /\ disk'[f] = d
      /\ \A g \in Files : g # f => disk'[g] = disk[g]
  BY <1>2, <1>3, <1>4, <1>5, FileChanges
<1>7. /\ apc' = [apc EXCEPT ![a] = "clear"] /\ apc'[a] = "clear" /\ Elsewhere(a)
  BY <1>1, <1>3 DEF Goto, SFTypeOK, Elsewhere
<1>8. ~Lost(f)' /\ disk'[f].id = disk[f].id /\ (~Lost(f) => disk[f].st \notin {"none", "empty"})
  BY <1>5, <1>6 DEF Lost
<1>9. /\ known' \in [Files -> Nat] /\ \A g \in Files : known'[g] = known[g] \/ known'[g] = 0
      /\ known'[f] # 0 => known'[f] = disk[f].id
  BY <1>1, <1>3 DEF SFTypeOK
<1>10. InRange'
  <2>1. disk'[f].id <= lastID' /\ lastID' = lastID
    BY <1>1, <1>3, <1>8 DEF SFTypeOK
  <2>2. /\ \A g \in Files : disk'[g].id <= lastID'
        /\ \A g \in Files : Lost(g)' => disk'[g].id = 0
    BY <1>3, <1>6, <1>8, <2>1, RangeOfIDs
  <2>3. clashed' \in BOOLEAN
    <3>1. clashed \in BOOLEAN
      BY <1>3 DEF SFTypeOK
    <3> QED
      BY <1>2, <3>1, Zenon
  <2>4. SFTypeOK'
    BY <1>1, <1>3, <1>6, <1>7, <1>9, <2>2, <2>3 DEF SFTypeOK, PCs
  <2>5. Locals(a)'
    BY <1>7 DEF Locals, Scanning, Toggling
  <2> QED
    BY <1>1, <1>3, <1>7, <2>2, <2>4, <2>5, RangeKept
<1>11. OwnIDs'
  <2>1. ASSUME NEW g \in Files, NEW x \in Nat \ {0},
               disk'[g].id = x \/ known'[g] = x \/ HasName(a, g, x)'
        PROVE  Names(g, x)
    <3>1. HasName(a, g, x)' => HasName(a, g, x)
      BY <1>1, <1>7 DEF HasName, Found1, Toggling
    <3>2. disk'[g].id = disk[g].id
      BY <1>6, <1>8
    <3> QED
      BY <1>1, <1>9, <2>1, <3>1, <3>2 DEF Names, HasName
  <2>2. lastID' = lastID
    BY <1>1
  <2> QED
    BY <1>1, <1>3, <1>7, <2>1, <2>2, IdsPass
<1>12. Firm'
  <2> SUFFICES ASSUME ~clashed' PROVE (\A b \in Managers : Writes1(b)') /\
                         \A g \in Files, x \in Nat : Told(g, x)' => Keeps(g, x)'
    BY DEF Firm
  <2>1. /\ \A b \in Managers : Writes1(b)
        /\ \A g \in Files, x \in Nat : Told(g, x) => Keeps(g, x)
        /\ Lost(f) => \A b \in Managers : b # a => apc[b] = "idle"
    BY <1>2, <1>3 DEF Firm, Others, Lost
  <2>2. ~Writing(a) /\ ~Writing(a)' /\ ~Toggling(a)' /\ ~Scanning(a)'
    BY <1>1, <1>7 DEF Writing, Toggling, Scanning
  <2>3. ASSUME NEW b \in Managers, b # a
        PROVE  /\ apc'[b] = apc[b] /\ target'[b] = target[b] /\ buf'[b] = buf[b]
               /\ Next1(b)' = Next1(b) /\ (Writing(b)' <=> Writing(b))
               /\ (Toggling(b)' <=> Toggling(b)) /\ (Scanning(b)' <=> Scanning(b))
               /\ \A g, x : Found1(b, g, x)' <=> Found1(b, g, x)
    BY <1>7, <2>3, OthersStay DEF Elsewhere
  <2>4. \A g \in Files : /\ disk'[g].id = disk[g].id
                         /\ ~Lost(f) \/ g # f => /\ Lost(g)' <=> Lost(g)
                                                 /\ disk'[g].st = "none" <=> disk[g].st = "none"
                         /\ g # f => (g \in gone' <=> g \in gone)
                         /\ g = f => disk'[g].st # "none"
    BY <1>1, <1>5, <1>6, <1>8 DEF Lost
  <2>5. ASSUME NEW b \in Managers PROVE Writes1(b)'
    <3>1. \A c \in Managers : Writing(b)' /\ Writing(c)' => b = c
      BY <2>1, <2>2, <2>3 DEF Writes1
    <3>2. CASE b = a
      BY <1>7, <3>1, <3>2 DEF Writes1
    <3>3. CASE b # a /\ Lost(f)
      BY <2>1, <2>3, <3>1, <3>3 DEF Writes1
    <3>4. CASE b # a /\ ~Lost(f)
      <4>1. Writes1(b)
        BY <2>1
      <4>2. PICK h, k : h = Next1(b) /\ k = target[b]
        OBVIOUS
      <4>3. /\ apc[b] \in {"truncate", "backfill"} => h \in Files
            /\ apc[b] \in {"totrunc", "towrite", "fill"} => k \in Files
        BY <1>3, <4>2, AtFiles
      <4>4. /\ apc[b] = "truncate" => disk[h].id = 0
            /\ apc[b] = "backfill" => Lost(h)
            /\ apc[b] = "backfill" /\ disk[h].st = "none" => h \in gone
            /\ apc[b] = "totrunc" => Lost(k) \/ disk[k].id = buf[b].id
            /\ apc[b] \in {"towrite", "fill"} => Lost(k)
        BY <4>1, <4>2 DEF Writes1
      <4>5. /\ apc[b] = "truncate" => disk'[h].id = 0
            /\ apc[b] = "backfill" => Lost(h)'
            /\ apc[b] = "backfill" /\ disk'[h].st = "none" => h \in gone'
            /\ apc[b] = "totrunc" => Lost(k)' \/ disk'[k].id = buf[b].id
            /\ apc[b] \in {"towrite", "fill"} => Lost(k)'
        BY <2>4, <3>4, <4>3, <4>4
      <4>6. Next1(b)' = h /\ target'[b] = k /\ apc'[b] = apc[b] /\ buf'[b] = buf[b]
        BY <2>3, <3>4, <4>2
      <4> QED
        BY <3>1, <4>5, <4>6 DEF Writes1, Lost
    <3> QED
      BY <3>2, <3>3, <3>4
  <2>6. ASSUME NEW g \in Files, NEW x \in Nat, Told(g, x)' PROVE Keeps(g, x)'
    <3>1. x # 0 /\ (known'[g] = x \/ \E b \in Managers : b # a /\ Scanning(b) /\ Found1(b, g, x))
      BY <2>2, <2>3, <2>6 DEF Told
    <3>2. Told(g, x)
      BY <1>9, <3>1 DEF Told
    <3>3. Keeps(g, x)
      BY <2>1, <3>2
    <3>4. /\ Lost(g)' \/ disk'[g].id = x
          /\ disk'[g].st = "none" => g \in gone'
      <4>1. CASE g # f
        BY <2>4, <3>3, <4>1 DEF Keeps
      <4>2. CASE g = f /\ known'[g] = x
        BY <1>8, <1>9, <2>4, <3>1, <4>2
      <4>3. CASE g = f /\ \E b \in Managers : b # a /\ Scanning(b) /\ Found1(b, g, x)
        <5>1. ~Lost(f)
          BY <2>1, <4>3 DEF Scanning
        <5> QED
          BY <1>8, <2>4, <3>3, <4>3, <5>1 DEF Keeps
      <4> QED
        BY <3>1, <4>1, <4>2, <4>3
    <3>5. ASSUME NEW b \in Managers
          PROVE  /\ apc'[b] \in {"truncate", "backfill"} => Next1(b)' # g
                 /\ apc'[b] = "fill" => target'[b] # g
                 /\ Toggling(b)' /\ target'[b] = g => buf'[b].id = x
      <4>1. CASE b = a
        BY <1>7, <2>2, <4>1
      <4>2. CASE b # a
        BY <2>3, <3>3, <4>2 DEF Keeps
      <4> QED
        BY <4>1, <4>2
    <3> QED
      BY <3>4, <3>5 DEF Keeps
  <2> QED
    BY <2>5, <2>6
<1>13. InStep'
  <2>1. ~Midway(a)' /\ Due(a)'
    BY <1>7 DEF Midway, Writing, Due
  <2> QED
    BY <1>0, <1>1, <1>3, <1>6, <1>7, <2>1, DueStep
<1> QED
  BY <1>10, <1>11, <1>12, <1>13 DEF SfInv

\* A new file is made for a script.
LEMMA NewScriptInv ==
  ASSUME NEW a \in Managers, SfInv, NEW kind, NewScript(a, kind)
  PROVE  SfInv'
<1>1. PICK f \in Files \ (Present \cup gone) :
        /\ target' = [target EXCEPT ![a] = f] /\ disk' = [disk EXCEPT ![f] = EmptyFile]
  BY DEF NewScript, Truncate
<1>2. /\ apc[a] = "idle" /\ Goto(a, "fill") /\ BeginsToWrite(a)
      /\ calls' = calls + 1 /\ calls < MaxCalls
      /\ UNCHANGED <<engine, stage, todo, got, buf, listed, known, gone, asked, lastID>>
  BY DEF NewScript, CanStart, Starts
<1>3. /\ InRange /\ SFTypeOK /\ OwnIDs /\ Firm /\ InStep /\ f \in Files
      /\ disk[f].st = "none" /\ f \notin gone
  BY <1>1 DEF SfInv, InRange, Present
<1>4. EmptyFile \in Content /\ EmptyFile.st = "empty" /\ EmptyFile.id = 0
  BY Fields1
<1>5. /\ disk' \in [Files -> Content] /\ disk'[f] = EmptyFile
      /\ \A g \in Files : g # f => disk'[g] = disk[g]
  BY <1>1, <1>3, <1>4, FileChanges
<1>6. /\ apc' = [apc EXCEPT ![a] = "fill"] /\ apc'[a] = "fill" /\ target'[a] = f /\ Elsewhere(a)
  BY <1>1, <1>2, <1>3 DEF Goto, SFTypeOK, Elsewhere
<1>7. Lost(f)' /\ disk'[f].id = 0
  BY <1>4, <1>5 DEF Lost
<1>8. InRange'
  <2>1. 0 <= lastID' /\ lastID' = lastID
    BY <1>2, <1>3 DEF SFTypeOK
  <2>2. /\ \A g \in Files : disk'[g].id <= lastID'
        /\ \A g \in Files : Lost(g)' => disk'[g].id = 0
    BY <1>3, <1>5, <1>7, <2>1, RangeOfIDs
  <2>3. disturbed' \in BOOLEAN /\ clashed' \in BOOLEAN /\ calls' \in 0 .. MaxCalls
    BY <1>2, <1>3, TypesStay
  <2>4. target' \in [Managers -> Files \cup {0}]
    BY <1>1, <1>3 DEF SFTypeOK
  <2>5. SFTypeOK'
    BY <1>2, <1>3, <1>5, <1>6, <2>2, <2>3, <2>4 DEF SFTypeOK, PCs
  <2>6. Locals(a)'
    BY <1>3, <1>6 DEF Locals, Scanning, Toggling
  <2> QED
    BY <1>3, <1>6, <2>2, <2>5, <2>6, RangeKept
<1>9. OwnIDs'
  <2>1. ASSUME NEW g \in Files, NEW x \in Nat \ {0},
               disk'[g].id = x \/ known'[g] = x \/ HasName(a, g, x)'
        PROVE  Names(g, x)
    <3>1. HasName(a, g, x)' => HasName(a, g, x)
      BY <1>2, <1>6 DEF HasName, Found1, Toggling
    <3> QED
      BY <1>2, <1>5, <1>7, <2>1, <3>1 DEF Names, HasName
  <2> QED
    BY <1>2, <1>3, <1>6, <2>1, IdsPass
<1>10. Firm'
  <2> SUFFICES ASSUME ~clashed' PROVE (\A b \in Managers : Writes1(b)') /\
                         \A g \in Files, x \in Nat : Told(g, x)' => Keeps(g, x)'
    BY DEF Firm
  <2>1. /\ \A b \in Managers : b # a => ~Writing(b) /\ ~Writing(b)'
        /\ \A g \in Files, x \in Nat : Told(g, x) => Keeps(g, x)
    BY <1>2, <1>3, <1>6, NobodyBeside DEF Firm
  <2>2. ASSUME NEW b \in Managers PROVE Writes1(b)'
    <3>1. CASE b = a
      BY <1>6, <1>7, <2>1, <3>1 DEF Writes1, Lost
    <3>2. CASE b # a
      BY <2>1, <3>2 DEF Writes1, Writing
    <3> QED
      BY <3>1, <3>2
  <2>3. ASSUME NEW g \in Files, NEW x \in Nat, Told(g, x)' PROVE Keeps(g, x)'
    <3>1. Told(g, x)
      BY <1>2, <1>6, <2>3, ToldStays DEF Scanning
    <3>2. Keeps(g, x)
      BY <2>1, <3>1
    <3>3. g # f
      BY <1>3, <3>2 DEF Keeps
    <3>4. ASSUME NEW b \in Managers
          PROVE  /\ apc'[b] \in {"truncate", "backfill"} => Next1(b)' # g
                 /\ apc'[b] = "fill" => target'[b] # g
                 /\ Toggling(b)' /\ target'[b] = g => buf'[b].id = x
      <4>1. CASE b = a
        BY <1>6, <3>3, <4>1 DEF Toggling
      <4>2. CASE b # a
        BY <2>1, <4>2 DEF Writing, Toggling
      <4> QED
        BY <4>1, <4>2
    <3> QED
      BY <1>2, <1>5, <3>2, <3>3, <3>4 DEF Keeps, Lost
  <2> QED
    BY <2>2, <2>3
<1>11. InStep'
  <2> SUFFICES ASSUME ~disturbed' PROVE Ordered' /\ ((\A b \in Managers : ~Due(b)') => Current')
    BY DEF InStep
  <2>1. /\ ~disturbed
        /\ \A b \in Managers : b # a => ~Midway(b) /\ ~Midway(b)' /\ ~Loading(b) /\ ~Loading(b)'
    BY <1>2, <1>6, NobodyBeside
  <2>2. Ordered /\ ((\A b \in Managers : ~Due(b)) => Current)
    BY <1>3, <2>1 DEF InStep
  <2>3. ~Loading(a) /\ ~Loading(a)' /\ ~Due(a) /\ ~Due(a)'
    BY <1>2, <1>6 DEF Loading, Scanning, Due
  <2>4. Ordered'
    <3>1. apc'["tui"] = "fill" => target'["tui"] = f
      BY <1>6, <2>1 DEF Managers, Midway, Writing
    <3>2. apc'["tui"] = "fill" => Lost(target["tui"])'
      BY <1>7, <3>1 DEF Lost
    <3> QED
      BY <1>2, <2>1, <2>2, <2>3, <3>2 DEF Ordered
  <2>5. ASSUME \A b \in Managers : ~Due(b)' PROVE Current'
    <3>1. Current
      BY <1>6, <2>2, <2>3, <2>5, OthersStay
    <3>2. \A b \in Managers : /\ Backfilled(b)' = {} /\ Backfilled(b) = {}
                              /\ apc'[b] \notin {"truncate", "backfill"}
                              /\ ~Loading(b) /\ ~Loading(b)'
      BY <1>2, <1>6, <2>1, <2>3 DEF Backfilled, Midway, Writing
    <3>3. EnabledOnDisk' = EnabledOnDisk /\ Loaded' = Loaded
      BY <1>2, <1>3, <1>4, <1>5 DEF EnabledOnDisk, Loaded
    <3>4. UNION {Backfilled(b)' : b \in Managers} = UNION {Backfilled(b) : b \in Managers}
      BY <3>2
    <3> QED
      BY <3>1, <3>2, <3>3, <3>4 DEF Current
  <2> QED
    BY <2>4, <2>5
<1> QED
  BY <1>8, <1>9, <1>10, <1>11 DEF SfInv

\* The engine is cleared before the scan.
LEMMA ClearInv ==
  ASSUME NEW a \in Managers, SfInv, Clear(a)
  PROVE  SfInv'
<1>1. /\ apc[a] = "clear" /\ engine' = << >> /\ StartScan(a, "load")
      /\ disturbed' = \E b \in Others(a) : Midway(b)
      /\ UNCHANGED <<disk, op, target, buf, listed, known, gone, asked, lastID, calls, clashed>>
  BY DEF Clear
<1>2. SFTypeOK /\ disturbed' \in BOOLEAN /\ clashed' \in BOOLEAN /\ engine' \in Seq(Files)
  <2>1. SFTypeOK
    BY DEF SfInv, InRange
  <2>2. disturbed' \in BOOLEAN
    BY <1>1, Zenon
  <2>3. clashed' \in BOOLEAN
    BY <1>1, <2>1 DEF SFTypeOK
  <2> QED
    BY <1>1, <2>1, <2>2, <2>3
<1>3. /\ SFTypeOK' /\ Elsewhere(a)
      /\ apc'[a] = "scan" /\ stage'[a] = "load" /\ todo'[a] = Present /\ got'[a] = << >>
  BY <1>1, <1>2, ScanStarts, TypesStay
<1>4. InRange' /\ OwnIDs' /\ Firm'
  BY <1>1, <1>3, AsideKeeps
<1>5. InStep'
  <2> SUFFICES ASSUME ~disturbed' PROVE Ordered' /\ Current'
    BY DEF InStep
  <2>1. \A b \in Managers : b # a => ~Midway(b)
    BY <1>1 DEF Others
  <2>2. \A b \in Managers : b # a => ~Midway(b)' /\ ~Loading(b)'
    BY <1>3, <2>1, OthersStay DEF Loading, Scanning, Midway, Writing
  <2>3. Loading(a)'
    BY <1>3 DEF Loading, Scanning
  <2>4. Ordered'
    <3>1. "tui" \in Managers /\ apc'["tui"] # "fill"
      BY <1>3, <2>2 DEF Managers, Midway, Writing
    <3>2. \A i, j \in 1 .. Len(engine') : i < j => engine'[i] < engine'[j]
      BY <1>1
    <3> QED
      BY <1>1, <2>2, <3>1, <3>2 DEF Ordered
  <2>5. ASSUME NEW f \in Files \ todo'[a]
        PROVE  f \in EnabledOnDisk' <=> \E i \in 1 .. Len(got'[a]) :
                                          got'[a][i].enabled /\ got'[a][i].file = f
    <3>1. f \notin EnabledOnDisk'
      BY <1>1, <1>3 DEF Present, EnabledOnDisk
    <3> QED
      BY <1>3, <3>1
  <2>6. ASSUME NEW b \in Managers
        PROVE  /\ apc'[b] = "truncate" => disk'[Next1(b)'] = buf'[b]
               /\ apc'[b] = "backfill" => disk'[Next1(b)'].st = "empty"
               /\ Loading(b)' => \A f \in Files \ todo'[b] :
                    f \in EnabledOnDisk' <=> \E i \in 1 .. Len(got'[b]) :
                                        got'[b][i].enabled /\ got'[b][i].file = f
    <3>1. CASE b = a
      BY <1>3, <2>5, <3>1
    <3>2. CASE b # a
      BY <2>2, <3>2 DEF Midway, Writing
    <3> QED
      BY <3>1, <3>2
  <2> QED
    BY <2>3, <2>4, <2>6 DEF Current
<1> QED
  BY <1>4, <1>5 DEF SfInv

\* The enabled scripts of a finished scan become the engine's.
LEMMA AppendEnabledInv ==
  ASSUME NEW a \in Managers, SfInv, AppendEnabled(a)
  PROVE  SfInv'
<1> DEFINE n == Len(got[a])
           P == {i \in 1 .. n : got[a][i].enabled}
           enabled == Kept(got[a], P)
<1>1. /\ apc[a] = "scan" /\ todo[a] = {} /\ stage[a] = "load" /\ Goto(a, "loaded")
      /\ engine' = engine \o [i \in 1 .. Len(enabled) |-> enabled[i].file]
      /\ UNCHANGED <<disk, op, stage, todo, got, target, buf, listed, known, gone, asked, lastID,
                     calls, marks>>
  BY DEF AppendEnabled, Scanned
<1>2. /\ SFTypeOK /\ Locals(a) /\ Scanning(a) /\ engine \in Seq(Files) /\ InStep
      /\ disturbed' = disturbed /\ clashed' = clashed
  BY <1>1 DEF SfInv, InRange, Scanning, SFTypeOK, marks
<1>3. /\ n \in Nat
      /\ \A i \in 1 .. n : got[a][i].file \in Files /\ got[a][i].file \in Nat
      /\ \A i, j \in 1 .. n : i < j => got[a][i].file < got[a][j].file
  BY <1>2, FoundTypes DEF Locals
<1>4. P \in SUBSET (1 .. n) /\ \A i \in 1 .. n : i \in P <=> got[a][i].enabled
  BY <1>2, FoundTypes
<1> HIDE DEF P, enabled
<1>5. Sublist(enabled, got[a], P)
  <2> DEFINE s == got[a]
  <2>1. enabled = Kept(s, P)
    BY DEF enabled
  <2> HIDE DEF s
  <2>2. n \in Nat /\ P \in SUBSET (1 .. n)
    BY <1>3, <1>4
  <2> HIDE DEF n
  <2>3. Sublist(enabled, s, P)
    BY <2>1, <2>2, KeptIsSublist
  <2> QED
    BY <2>3 DEF s
<1> DEFINE k == Cardinality(P)
<1>6. k \in Nat /\ enabled = [i \in 1 .. k |-> enabled[i]] /\ Len(enabled) = k
  BY <1>5 DEF Sublist
<1>7. PICK places \in [1 .. k -> P] :
        /\ \A i \in 1 .. k : enabled[i] = got[a][places[i]]
        /\ \A i, j \in 1 .. k : i < j => places[i] < places[j]
        /\ \A p \in P : \E i \in 1 .. k : places[i] = p
  BY <1>5 DEF Sublist
<1> HIDE DEF k, n
<1> DEFINE new == [i \in 1 .. k |-> enabled[i].file]
<1>8. \A i \in 1 .. k : /\ places[i] \in P /\ places[i] \in 1 .. n
                        /\ new[i] = got[a][places[i]].file /\ new[i] \in Files
  BY <1>3, <1>4, <1>7 DEF n
<1>9. new \in Seq(Files) /\ Len(new) = k
  BY <1>6, <1>8
<1>10. engine' = engine \o new /\ engine' \in Seq(Files)
  BY <1>1, <1>2, <1>6, <1>9
<1>11. \A i, j \in 1 .. k : i < j => new[i] < new[j]
  BY <1>3, <1>7, <1>8 DEF n
<1>12. \A f : (\E i \in 1 .. k : new[i] = f)
              <=> \E p \in 1 .. n : got[a][p].enabled /\ got[a][p].file = f
  <2> TAKE f
  <2>1. ASSUME NEW i \in 1 .. k, new[i] = f
        PROVE  \E p \in 1 .. n : got[a][p].enabled /\ got[a][p].file = f
    BY <1>4, <1>8, <2>1 DEF n
  <2>2. ASSUME NEW p \in 1 .. n, got[a][p].enabled, got[a][p].file = f
        PROVE  \E i \in 1 .. k : new[i] = f
    <3>1. PICK i \in 1 .. k : places[i] = p
      BY <1>4, <1>7, <2>2 DEF n
    <3> QED
      BY <1>8, <2>2, <3>1
  <2> QED
    BY <2>1, <2>2
<1> HIDE DEF new
<1>13. SFTypeOK' /\ Elsewhere(a) /\ apc'[a] = "loaded" /\ got'[a] = got[a]
  <2>1. disturbed' \in BOOLEAN /\ clashed' \in BOOLEAN
    BY <1>2 DEF SFTypeOK
  <2> QED
    BY <1>1, <1>2, <1>10, <2>1, GoesOn, TypesStay DEF PCs
<1>14. InRange' /\ OwnIDs' /\ Firm'
  BY <1>1, <1>2, <1>13, AsideKeeps DEF Outside
<1>15. InStep'
  <2> SUFFICES ASSUME ~disturbed PROVE Ordered' /\ ((\A b \in Managers : ~Due(b)') => Current')
    BY <1>2 DEF InStep
  <2>1. Ordered /\ ((\A b \in Managers : ~Due(b)) => Current)
    BY <1>2 DEF InStep
  <2>2. Loading(a) /\ Midway(a) /\ ~Midway(a)' /\ ~Loading(a)' /\ ~Due(a) /\ ~Due(a)'
    BY <1>1, <1>13 DEF Loading, Midway, Scanning, Writing, Due
  <2>3. \A b \in Managers : ~Midway(b)' /\ ~Loading(b)'
    BY <1>13, <2>1, <2>2, OthersStay DEF Ordered, Loading, Scanning, Midway, Writing
  <2>4. engine' = new
    BY <1>9, <1>10, <2>1, <2>2 DEF Ordered
  <2>5. Ordered'
    <3>1. "tui" \in Managers /\ apc'["tui"] # "fill"
      BY <2>3 DEF Managers, Midway, Writing
    <3>2. \A i, j \in 1 .. Len(engine') : i < j => engine'[i] < engine'[j]
      BY <1>9, <1>11, <2>4
    <3> QED
      BY <2>3, <3>1, <3>2 DEF Ordered
  <2>6. ASSUME \A b \in Managers : ~Due(b)' PROVE Current'
    <3>1. Current
      BY <1>13, <2>1, <2>2, <2>6, OthersStay
    <3>2. \A f \in Files : f \in EnabledOnDisk <=> \E i \in 1 .. k : new[i] = f
      BY <1>1, <1>12, <2>2, <3>1 DEF Current, n
    <3>3. Loaded' = EnabledOnDisk'
      <4>1. Loaded' = {new[i] : i \in 1 .. k}
        BY <1>9, <2>4 DEF Loaded
      <4>2. EnabledOnDisk' = EnabledOnDisk /\ EnabledOnDisk \subseteq Files
        BY <1>1 DEF EnabledOnDisk
      <4>3. \A i \in 1 .. k : new[i] \in Files
        BY <1>9
      <4> QED
        BY <3>2, <4>1, <4>2, <4>3
    <3>4. \A b \in Managers : Backfilled(b)' = {} /\ apc'[b] \notin {"truncate", "backfill"}
      BY <2>3 DEF Backfilled, Midway, Writing
    <3>5. UNION {Backfilled(b)' : b \in Managers} = {}
      BY <3>4
    <3> QED
      BY <2>3, <3>3, <3>4, <3>5 DEF Current
  <2> QED
    BY <2>5, <2>6
<1> QED
  BY <1>14, <1>15 DEF SfInv

-----------------------------------------------------------------------------

\* Before anything was loaded.
LEMMA SFInitInv == SFInit => SfInv
<1> SUFFICES ASSUME SFInit PROVE SfInv
  OBVIOUS
<1> USE DEF SFInit
<1>1. "tui" \in Managers
  BY DEF Managers
<1>2. \A f \in Files : disk[f] = NoFile \/ disk[f] = Script(0, TRUE)
  OBVIOUS
<1>3. /\ NoFile \in Content /\ Script(0, TRUE) \in Content /\ NoFile.id = 0
      /\ NoFile.st = "none" /\ Script(0, TRUE).id = 0 /\ Script(0, TRUE).st = "good"
  BY DEF NoFile, Script, Content
<1>4. SFTypeOK
  <2>1. disk \in [Files -> Content] /\ \A f \in Files : disk[f].id <= lastID
    <3>1. \A f \in Files : disk[f] \in Content /\ disk[f].id = 0
      BY <1>2, <1>3
    <3>2. disk = [f \in Files |-> disk[f]] /\ lastID = 0
      OBVIOUS
    <3> QED
      BY <3>1, <3>2
  <2>2. engine \in Seq(Files) /\ \A S : << >> \in Seq(S)
    OBVIOUS
  <2>3. apc \in [Managers -> PCs] /\ stage \in [Managers -> {"find", "load", "show"}]
    BY DEF PCs
  <2>4. todo \in [Managers -> SUBSET Files] /\ target \in [Managers -> Files \cup {0}]
    BY DEF Present
  <2>5. got \in [Managers -> Seq(Entry)]
    BY <2>2
  <2>6. buf \in [Managers -> Content] /\ known \in [Files -> Nat]
    BY <1>3
  <2>7. lastID \in Nat /\ calls \in 0 .. MaxCalls
    BY FilesAssumption
  <2> QED
    BY <2>1, <2>2, <2>3, <2>4, <2>5, <2>6, <2>7 DEF SFTypeOK
<1>5. \A a \in Managers : /\ apc[a] = IF a = "tui" THEN "scan" ELSE "idle"
                          /\ got[a] = << >>
  OBVIOUS
<1>6. \A a \in Managers : \A f, x : ~Found1(a, f, x)
  BY <1>5 DEF Found1
<1>7. InRange
  <2>1. \A f \in Files : disk[f].id = 0
    BY <1>2, <1>3
  <2>2. ASSUME NEW a \in Managers PROVE Locals(a)
    <3>1. apc[a] \in {"scan", "idle"} /\ Len(got[a]) = 0
      BY <1>5
    <3> QED
      BY <3>1 DEF Locals, Toggling
  <2> QED
    BY <1>4, <2>1, <2>2 DEF InRange
<1>8. \A f \in Files, x \in Nat : ~Names(f, x) /\ ~Told(f, x)
  <2> TAKE f \in Files, x \in Nat
  <2>1. disk[f].id = 0 /\ known[f] = 0
    BY <1>2, <1>3
  <2>2. \A a \in Managers : ~Toggling(a)
    BY <1>5 DEF Toggling
  <2> QED
    BY <1>6, <2>1, <2>2 DEF Names, Told
<1>9. OwnIDs
  BY <1>8 DEF OwnIDs
<1>10. Firm
  BY <1>5, <1>8 DEF Firm, Writes1, Writing
<1>11. InStep
  <2>1. Ordered
    BY <1>1, <1>5 DEF Ordered, Midway, Writing
  <2>2. Loading("tui") /\ \A a \in Managers : a # "tui" => ~Loading(a)
    BY <1>1, <1>5 DEF Loading, Scanning
  <2>3. \A f \in Files \ todo["tui"] : f \notin EnabledOnDisk
    BY <1>1, <1>2, <1>3 DEF Present, EnabledOnDisk
  <2>4. Current
    BY <1>1, <1>5, <2>2, <2>3 DEF Current
  <2> QED
    BY <2>1, <2>4 DEF InStep
<1> QED
  BY <1>7, <1>9, <1>10, <1>11 DEF SfInv

\* Every step of any interleaving keeps the invariant.
LEMMA SFNextInv == SfInv /\ [SFNext]_sfVars => SfInv'
<1> SUFFICES ASSUME SfInv, [SFNext]_sfVars PROVE SfInv'
  OBVIOUS
<1>1. "tui" \in Managers
  BY DEF Managers
<1>2. CASE UNCHANGED sfVars
  <2>1. /\ disk' = disk /\ engine' = engine /\ apc' = apc /\ op' = op /\ stage' = stage
        /\ todo' = todo /\ got' = got /\ target' = target /\ buf' = buf /\ listed' = listed
        /\ known' = known /\ gone' = gone /\ asked' = asked /\ lastID' = lastID
        /\ calls' = calls /\ disturbed' = disturbed /\ clashed' = clashed
    BY <1>2 DEF sfVars
  <2>2. InRange'
    BY <2>1 DEF SfInv, InRange, SFTypeOK, Lost, Locals, Scanning, Toggling
  <2>3. OwnIDs'
    BY <2>1 DEF SfInv, OwnIDs, Names, Found1, Toggling
  <2>4. Firm'
    BY <2>1 DEF SfInv, Firm, Writes1, Told, Keeps, Writing, Scanning, Found1, Toggling, Lost, Next1
  <2>5. InStep'
    BY <2>1 DEF SfInv, InStep, Ordered, Current, Due, Midway, Writing, Loading, Scanning, Lost,
                Next1, EnabledOnDisk, Loaded, Backfilled
  <2> QED
    BY <2>2, <2>3, <2>4, <2>5 DEF SfInv
<1>3. CASE OpenModal \/ KeyOnEntry
  BY <1>1, <1>3, StartsInv
<1>4. CASE NewInTUI
  BY <1>1, <1>4, NewScriptInv DEF NewInTUI
<1>5. CASE EditorExits
  BY <1>5, EditorExitsInv
<1>6. ASSUME NEW a \in Managers, NewByTool(a) PROVE SfInv'
  BY <1>6, NewScriptInv DEF NewByTool
<1>7. ASSUME NEW a \in Managers, ToolCall(a) PROVE SfInv'
  BY <1>7, StartsInv
<1>8. ASSUME NEW a \in Managers, ManagerStep(a) PROVE SfInv'
  BY <1>8, ReadScriptInv, TruncateForIDInv, BackfillInv, SkipInv, ClearInv, AppendEnabledInv,
     AfterReloadInv, ShownInv, PickedInv, ToggleReadInv, ToggleTruncateInv, ToggleWriteInv,
     ToggleFailsInv, RemoveInv, FillInv, FillFailsInv DEF ManagerStep
<1> QED
  BY <1>2, <1>3, <1>4, <1>5, <1>6, <1>7, <1>8 DEF SFNext

\* The invariant of script files and engine, whatever overlaps and fails.
THEOREM ScriptFilesInvariant == SFSpec => []SfInv
  BY SFInitInv, SFNextInv, PTL DEF SFSpec

\* When nothing is in progress the engine has exactly the scripts that are enabled on disk,
\* in order, unless two managers were midway at once or a file could not be read or
\* rewritten since the last Reload that had nobody beside it; for any number of files,
\* managers and operations, in any interleaving.
THEOREM EngineRunsWhatIsEnabled == SFSpec => []EngineMatchesDisk
<1>1. SfInv => EngineMatchesDisk
  <2> SUFFICES ASSUME SfInv, Quiet, ~disturbed PROVE Matches
    BY DEF EngineMatchesDisk
  <2>1. \A a \in Managers : ~Due(a) /\ ~Loading(a) /\ Backfilled(a) = {}
    BY DEF Quiet, Due, Loading, Scanning, Backfilled
  <2>2. Ordered /\ Current
    BY <2>1 DEF SfInv, InStep
  <2>3. UNION {Backfilled(a) : a \in Managers} = {}
    BY <2>1
  <2> QED
    BY <2>1, <2>2, <2>3 DEF Ordered, Current, Matches
<1> QED
  BY <1>1, ScriptFilesInvariant, PTL

\* An ID that a client was told never leads to another script, whatever overlaps and fails,
\* and names its script until two managers write at once.
THEOREM ToldIDsName == SFSpec => []KnownIDsWork
<1>1. SfInv => KnownIDsWork
  <2> SUFFICES ASSUME SfInv, NEW f \in Files, known[f] # 0
               PROVE  /\ \A g \in Files : disk[g].id = known[f] => g = f
                      /\ disk[f].st = "good" /\ ~clashed => disk[f].id = known[f]
    BY DEF KnownIDsWork
  <2>1. known[f] \in Nat
    BY DEF SfInv, InRange, SFTypeOK
  <2>2. PICK x \in Nat : x = known[f] /\ x # 0
    BY <2>1
  <2>3. \A g \in Files : disk[g].id = x => g = f
    BY <2>2 DEF SfInv, OwnIDs, Names
  <2>4. ASSUME disk[f].st = "good", ~clashed PROVE disk[f].id = x
    BY <2>2, <2>4 DEF SfInv, Firm, Told, Keeps, Lost
  <2> QED
    BY <2>2, <2>3, <2>4
<1> QED
  BY <1>1, ScriptFilesInvariant, PTL

=============================================================================
