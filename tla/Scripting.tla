------------------------------ MODULE Scripting ------------------------------
(***************************************************************************)
(* The scripts of one flow (internal/scripting/scripting.go) and what the  *)
(* interceptor makes of their results (applyRequestScripts and             *)
(* applyResponseScripts in internal/proxy/interceptor.go).  RunOnRequest   *)
(* and RunOnResponse copy the engine's scripts and run them in order on    *)
(* one context; a script sees a JavaScript copy of it and its changes are  *)
(* read back, field by field, when it returns.                             *)
(*                                                                         *)
(* Scripts are numbered 1 .. N in the order they run.  Values are          *)
(* abstracted to where they come from: a number k > 0 is a value script k  *)
(* wrote, 0 the original one.  What a script does is any outcome its code  *)
(* may have, except that it leaves the Content-Encoding header alone and   *)
(* that the URLs it writes can be parsed.                                  *)
(***************************************************************************)
EXTENDS Integers, Sequences

CONSTANTS
  N,           \* number of scripts
  URLs,        \* URLs a script can match or rewrite to
  Headers,     \* header names, besides the two about the body's encoding
  Supported,   \* encodings that DecodedBody and recompress know
  Encodings    \* encodings the client and upstream may use, besides "identity"

ASSUME ScriptingAssumption == /\ N \in Nat
                              /\ URLs # {}
                              /\ "identity" \notin Supported \cup Encodings

VARIABLES
  phase,      \* request, upstream, response, or how the flow ended
  next,       \* the script to run next
  matches,    \* script -> the URLs its patterns match
  url,        \* ctx.URL, then f.Request.URL
  from,       \* whose values ctx.Blocked, ctx.Method, ctx.URL and ctx.Status have
  hdr,        \* ctx.Headers: name -> its values
  blocked,    \* ctx.Blocked
  body,       \* ctx.Body, then the body that is sent
  coded,      \* the decoder registry decoded the body for the scripts
  resp,       \* ctx.Responded and the response fields
  wire,       \* the request's body, then the reply's: whose it is, its Content-Encoding
  failed,     \* scripts that did not compile, or threw in their own code, in this phase
  halves,     \* <<script, field>>: the panics while a field was read back, in this phase
  blockers,   \* scripts that returned with ctx.blocked set
  dropped     \* headers a script deleted and no later script set again

scVars == <<phase, next, matches, url, from, hdr, blocked, body, coded, resp, wire, failed,
            halves, blockers, dropped>>

Scripts == 1 .. N

\* n values, the first of them from script by.
Values == [n : 0 .. 2, by : 0 .. N]

\* A body's content, and whether it is JSON made by the body decoder.
Bodies == [by : 0 .. N, json : BOOLEAN]

\* by: the call that answered last, 0 if none did; then whose status, body and headers
\* the answer has.
Responses == [by : 0 .. N, status : 0 .. N, body : 0 .. N, hdrs : 0 .. N]
NoResponse == [by |-> 0, status |-> 0, body |-> 0, hdrs |-> 0]

Original == [by |-> 0, json |-> FALSE]

\* enc: the Content-Encoding header; layers: the encodings really applied, the
\* outermost first.
Message(by, enc, layers) == [by |-> by, enc |-> enc, layers |-> layers]
LayersOf(enc) == IF enc = "identity" THEN << >> ELSE <<enc>>

\* The context in the order it is read back: first whether the script responded.
Order == <<"response", "blocked", "method", "url", "status", "body", "headers">>
ReadBefore(f, g) == \E i, j \in DOMAIN Order : i < j /\ Order[i] = f /\ Order[j] = g

Fields == IF phase = "request"
            THEN {"response", "blocked", "method", "url", "body", "headers"}
            ELSE {"response", "status", "body", "headers"}

\* The fields whose values are told apart only by whose they are.
Tagged == {"blocked", "method", "url", "status"}
Untouched == [f \in Tagged |-> 0]

SCInit ==
  /\ phase = "request" /\ next = 1
  /\ matches \in [Scripts -> SUBSET URLs]
  /\ url \in URLs /\ from = Untouched
  /\ hdr \in [Headers -> {[n |-> k, by |-> 0] : k \in 0 .. 2}]
  /\ blocked = FALSE
  /\ coded \in BOOLEAN
  /\ body = [by |-> 0, json |-> coded]
  /\ resp = NoResponse
  /\ wire \in {Message(0, enc, LayersOf(enc)) : enc \in Encodings \cup {"identity"}}
  /\ failed = {} /\ halves = {} /\ blockers = {} /\ dropped = {}

Running == phase \in {"request", "response"} /\ next <= N
Matched == url \in matches[next]
Advance == next' = next + 1

-----------------------------------------------------------------------------
(* One script: runOnRequest and runOnResponse *)

\* Skipped by its pattern, which sees the URL as earlier scripts left it, or without
\* the hook.
SkipScript ==
  /\ Running /\ Advance
  /\ UNCHANGED <<phase, matches, url, from, hdr, blocked, body, coded, resp, wire, failed,
                 halves, blockers, dropped>>

\* The error path goes on to read the body back.
ScriptThrowsKeepsBody ==
  /\ Running /\ Matched /\ Advance
  /\ failed' = failed \cup {next}
  /\ body' = [body EXCEPT !.by = next]
  /\ UNCHANGED <<phase, matches, url, from, hdr, blocked, coded, resp, wire, halves, blockers,
                 dropped>>

\* A compile error, an exception or a panic before the read-back: recorded, and nothing is
\* read back.
ScriptThrows ==
  /\ Running /\ Matched /\ Advance
  /\ failed' = failed \cup {next}
  /\ UNCHANGED <<phase, matches, url, from, hdr, blocked, body, coded, resp, wire, halves,
                 blockers, dropped>>

\* respondWith with the fields read back as they are found: no headers given, the
\* earlier ones stay.
ScriptResponds ==
  /\ Running /\ Matched /\ Advance
  /\ \E withHeaders \in BOOLEAN :
       resp' = [by |-> next, status |-> next, body |-> next,
                hdrs |-> IF withHeaders THEN next ELSE resp.hdrs]
  /\ UNCHANGED <<phase, matches, url, from, hdr, blocked, body, coded, wire, failed, halves,
                 blockers, dropped>>

\* A value behind respondWith's fields is not what respondWith put there and panics when it
\* is converted: the script has answered, with the status and body read before that.
RespondFails ==
  /\ Running /\ Matched /\ Advance
  /\ \E read \in {{}, {"status"}, {"status", "body"}} :
       resp' = [by |-> next, hdrs |-> resp.hdrs,
                status |-> IF "status" \in read THEN next ELSE resp.status,
                body |-> IF "body" \in read THEN next ELSE resp.body]
  /\ halves' = halves \cup {<<next, "response">>}
  /\ UNCHANGED <<phase, matches, url, from, hdr, blocked, body, coded, wire, failed, blockers,
                 dropped>>

\* readBackHeaders: what the script's headers object has is set, to one value; what
\* was deleted from the object is left alone.  headersToJS gave it the first value.
ReadBack(h, how) ==
  IF how = "deleted" \/ (how = "kept" /\ hdr[h].n = 0) THEN hdr[h]
  ELSE [n |-> 1, by |-> IF how = "set" THEN next ELSE hdr[h].by]

\* Of what a script leaves in its copy, the fields read and the headers done reach the
\* context.  ctx.blocked is the script's own, whatever an earlier one set.
ReadsBack(read, done) ==
  \E wrote \in SUBSET (read \cap {"method", "url", "status", "body"}),
    how \in [Headers -> {"kept", "set", "deleted"}], newURL \in URLs, block \in BOOLEAN :
      /\ block => phase = "request"
      /\ blockers' = IF block THEN blockers \cup {next} ELSE blockers
      /\ blocked' = IF "blocked" \in read THEN block ELSE blocked
      /\ url' = IF "url" \in wrote THEN newURL ELSE url
      /\ from' = [f \in Tagged |-> IF f \in wrote \cup (read \cap {"blocked"})
                                     THEN next ELSE from[f]]
      /\ body' = IF "body" \in wrote THEN [body EXCEPT !.by = next] ELSE body
      /\ hdr' = [h \in Headers |-> IF h \in done THEN ReadBack(h, how[h]) ELSE hdr[h]]
      /\ dropped' = (dropped \ {h \in done : how[h] = "set"})
                      \cup {h \in done : how[h] = "deleted"}

\* The read-back does not look at ctx.Responded: it is cleared when this script did
\* not respond.
ScriptReturnsUnresponded ==
  /\ Running /\ Matched /\ Advance
  /\ ReadsBack(Fields, Headers)
  /\ resp' = NoResponse
  /\ UNCHANGED <<phase, matches, coded, wire, failed, halves>>

\* A script returns, its changes are read back; not so once the flow has a response.
ScriptReturns ==
  /\ Running /\ Matched /\ Advance
  /\ \/ resp.by # 0 /\ UNCHANGED <<url, from, hdr, blocked, body, blockers, dropped>>
     \/ resp.by = 0 /\ ReadsBack(Fields, Headers)
  /\ UNCHANGED <<phase, matches, coded, resp, wire, failed, halves>>

\* A getter or a conversion to a string throws in the read-back: the deferred recover
\* records it, and what was read before stays in the context.
ReadBackFails ==
  /\ Running /\ Matched /\ Advance
  /\ resp.by = 0
  /\ \E at \in Fields \ {"response"}, done \in SUBSET Headers :
       /\ done # {} => at = "headers"
       /\ ReadsBack({f \in Fields : ReadBefore(f, at)}, done)
       /\ halves' = halves \cup {<<next, at>>}
  /\ UNCHANGED <<phase, matches, coded, resp, wire, failed>>

-----------------------------------------------------------------------------
(* The interceptor *)

Ran(p) == phase = p /\ next = N + 1

\* runScriptsWithCodec without a way back: the body is sent as the scripts left it.
EncodeBodyRaw(b, ok) == b

\* runScriptsWithCodec after the scripts: an unchanged body is the original one, a
\* changed one is encoded again or, if that fails, given up for the original.
EncodeBody(b, ok) ==
  IF ~coded THEN b
  ELSE IF b.by # 0 /\ ok THEN [b EXCEPT !.json = FALSE] ELSE Original

\* ctx.Responded: buildSyntheticResponse.
ReplySynthetic ==
  /\ Ran("request") /\ resp.by # 0
  /\ phase' = "synthetic"
  /\ wire' = Message(resp.by, "identity", << >>)
  /\ UNCHANGED <<next, matches, url, from, hdr, blocked, body, coded, resp, failed, halves,
                 blockers, dropped>>

\* ctx.Blocked: the 403.
ReplyBlocked ==
  /\ Ran("request") /\ resp.by = 0 /\ blocked
  /\ phase' = "blocked"
  /\ wire' = Message(0, "identity", << >>)
  /\ UNCHANGED <<next, matches, url, from, hdr, blocked, body, coded, resp, failed, halves,
                 blockers, dropped>>

\* A body b that a script wrote is plain; one that no script wrote is as it came.
Layers(b) == IF b.by # 0 THEN << >> ELSE wire.layers

\* The request is forwarded with the context's fields, under its own Content-Encoding: the
\* scripts had the body as the client sent it.
Forward ==
  /\ Ran("request") /\ resp.by = 0 /\ ~blocked
  /\ phase' = "upstream"
  /\ \E ok \in BOOLEAN : body' = EncodeBody(body, ok)
  /\ wire' = Message(body'.by, wire.enc, Layers(body'))
  /\ UNCHANGED <<next, matches, url, from, hdr, blocked, coded, resp, failed, halves, blockers,
                 dropped>>

\* Upstream answers, with a body in some encoding, or in none.  DecodedBody undoes
\* an encoding it knows; otherwise the body stays as it is, which for a body that
\* was not in the encoding it claims is no encoding at all.
Answer ==
  /\ phase = "upstream"
  /\ phase' = "response" /\ next' = 1
  /\ \E enc \in Encodings \cup {"identity"} :
       wire' = Message(0, enc, IF enc \in Encodings \ Supported THEN <<enc>> ELSE << >>)
  /\ hdr' \in [Headers -> {[n |-> k, by |-> 0] : k \in 0 .. 2}]
  /\ coded' \in BOOLEAN
  /\ body' = [by |-> 0, json |-> coded']
  /\ resp' = NoResponse /\ from' = Untouched
  /\ failed' = {} /\ halves' = {} /\ dropped' = {}
  /\ UNCHANGED <<matches, url, blocked, blockers>>

\* ctx.Responded in the response phase: the script's response replaces upstream's.
ReplyReplaced ==
  /\ Ran("response") /\ resp.by # 0
  /\ phase' = "replaced"
  /\ wire' = Message(resp.by, "identity", << >>)
  /\ UNCHANGED <<next, matches, url, from, hdr, blocked, body, coded, resp, failed, halves,
                 blockers, dropped>>

\* The tail after the recompression keeps the original Content-Encoding.
PlainKeepsEncoding(b) == Message(b.by, wire.enc, Layers(b))

\* The tail of applyResponseScripts: the body the scripts had, no encoding.
Plain(b) == Message(b.by, "identity", Layers(b))

\* The body is compressed again under the original encoding.
Recompressed(b) == Message(b.by, wire.enc, <<wire.enc>> \o Layers(b))

\* Otherwise the body is compressed again if it was, unless recompress cannot.
ReplyScripted ==
  /\ Ran("response") /\ resp.by = 0
  /\ phase' = "scripted"
  /\ \E ok, compresses \in BOOLEAN :
       LET b == EncodeBody(body, ok) IN
       /\ body' = b
       /\ wire' = IF wire.enc \in Supported /\ compresses THEN Recompressed(b) ELSE Plain(b)
  /\ UNCHANGED <<next, matches, url, from, hdr, blocked, coded, resp, failed, halves, blockers,
                 dropped>>

-----------------------------------------------------------------------------

SCNext == \/ SkipScript \/ ScriptThrows \/ ScriptResponds \/ RespondFails
          \/ ScriptReturns \/ ReadBackFails
          \/ ReplySynthetic \/ ReplyBlocked \/ Forward \/ Answer
          \/ ReplyReplaced \/ ReplyScripted

SCSpec == SCInit /\ [][SCNext]_scVars

-----------------------------------------------------------------------------
(* Properties *)

Ends == {"synthetic", "blocked", "replaced", "scripted"}

\* The context and the message stay in range.
SCTypeOK ==
  /\ phase \in {"request", "upstream", "response"} \cup Ends
  /\ next \in 1 .. N + 1
  /\ matches \in [Scripts -> SUBSET URLs]
  /\ url \in URLs
  /\ hdr \in [Headers -> Values]
  /\ body \in Bodies
  /\ blocked \in BOOLEAN /\ coded \in BOOLEAN
  /\ resp \in Responses
  /\ from \in [Tagged -> 0 .. N]
  /\ failed \cup blockers \subseteq Scripts
  /\ dropped \subseteq Headers

\* A script that answered the request or replaced the response settles the matter:
\* the scripts after it can only put their own response in its place, and whatever
\* else they change is not read back.
AnsweredStaysAnswered ==
  [][resp.by # 0 /\ phase' = phase =>
       resp'.by >= resp.by /\ UNCHANGED <<url, hdr, blocked, body>>]_scVars

\* Whose values a field of the context has, or the answer.
Of(f) == IF f = "response" THEN {resp.by, resp.status, resp.body, resp.hdrs}
         ELSE IF f = "headers" THEN {hdr[h].by : h \in Headers}
         ELSE IF f = "body" THEN {body.by}
         ELSE {from[f]}
Everything == {Order[i] : i \in DOMAIN Order}

\* What the read-back has not written when it fails at a field.
Spared(at) == {f \in Everything : ReadBefore(at, f)}
                \cup IF at \in {"response", "headers"} THEN {} ELSE {at}
                \cup IF at = "response" THEN {} ELSE {"response"}

\* A script that failed in its own code, however far it got, leaves nothing in the context
\* or in an answer.  One that failed while its changes were read back has not answered,
\* unless it failed in its answer, and leaves nothing in the field it failed at, but for
\* some of its headers, and nothing in those after it (FailedIsSkipped is without that).
FailedLeaveNoTrace ==
  /\ \A k \in failed, f \in Everything : k \notin Of(f)
  /\ \A p \in halves : \A f \in Spared(p[2]) : p[1] \notin Of(f)

\* A body that was decoded to JSON for the scripts never goes over the wire as JSON:
\* it is encoded again, or the original is sent.
WireBody == phase \in {"upstream", "scripted"} => ~body.json

\* The Content-Encoding says how the body is encoded.
Truthful == wire.layers = LayersOf(wire.enc)

\* "to preserve the encoding for the client": what goes out is encoded as its
\* Content-Encoding says, a request that no script gave a new body, and every reply but
\* upstream's own body in an encoding the interceptor does not know (KeepsEncoding and
\* BodyIsWritable are without these conditions).
EncodingTruthful ==
  /\ phase = "upstream" /\ (wire.by = 0 \/ wire.enc = "identity") => Truthful
  /\ phase \in Ends /\ (wire.by = 0 => \A i \in DOMAIN wire.layers : wire.layers[i] \in Supported)
       => Truthful

\* Every body that leaves is what its headers say, whichever scripts changed it, whichever
\* of them failed, and whichever decoder or encoder did.
WireTruthful == WireBody /\ EncodingTruthful

-----------------------------------------------------------------------------
(* What the documentation says and the code does not do: TLC refutes each  *)
(* of these (README, "Divergences").                                       *)

\* README: ctx.blocked, "Set to true to block the request".
BlockedNotForwarded == phase = "upstream" => blockers = {}

\* README: respondWith in onResponse, "Replace the response entirely": the reply is
\* one call's, its headers are not those of an earlier script's response.
ResponseIsOneCall == phase = "replaced" => resp.hdrs \in {0, resp.by}

\* The design's example script, delete ctx.headers["Authorization"]: a header a script
\* deleted, and none set again, is not sent.
DeletedHeadersGone ==
  phase \in {"upstream", "scripted"} => \A h \in dropped : hdr[h].n = 0

\* The design's "JS runtime error -> log, skip script, continue others": nothing of a
\* script is left that failed while its changes were read back.
FailedIsSkipped == \A p \in halves, f \in Everything : p[1] \notin Of(f)

\* "the body is re-compressed after script processing to preserve the encoding for the
\* client": every reply is encoded as its Content-Encoding says.
KeepsEncoding == phase \in Ends => Truthful

\* README: ctx.body, "Request body (read/write)": a script may give a request a body, and
\* the server finds it in the encoding the request names.
BodyIsWritable == phase = "upstream" => Truthful
=============================================================================
