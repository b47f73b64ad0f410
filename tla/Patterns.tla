------------------------------ MODULE Patterns ------------------------------
(***************************************************************************)
(* The pattern languages of the program: the URL globs in a script's       *)
(* "match" header (scripting/glob.go), the host patterns of --block and    *)
(* --allow (hostfilter/hostfilter.go) and those that choose the protobuf   *)
(* schemas of a host (bodydecoder/host_registry.go).  Strings are          *)
(* sequences of characters.                                                *)
(***************************************************************************)
EXTENDS Queries, Integers, FiniteSets, SequencesExt

CONSTANTS
  Chars,          \* the characters of the strings
  PathQueries,    \* pairs <<pattern, path>> asked of wildcardMatch
  ScriptQueries,  \* pairs <<patterns, URL>>, a sequence of patterns, asked of GlobMatchAny
  HostQueries,    \* <<block, allow, name, port>> asked of ShouldIntercept; the port may be
                  \* empty
  SchemaQueries   \* <<set of patterns, name, port>> asked of Resolve

ASSUME CharAssumption == {"a", "*", ".", ":", "/"} \subseteq Chars

Text == Seq(Chars)
Without(c, s) == \A i \in DOMAIN s : s[i] # c

\* A name, or "*." and a name: the patterns the documentation of the lists has.
IsHostPattern(p) ==
  /\ p \in Text
  /\ \A i \in DOMAIN p : p[i] = "*" => i = 1 /\ Len(p) > 1 /\ p[2] = "."

IsHostName(n) == n \in Text \ {<< >>} /\ n[1] # "." /\ Without(":", n)
IsPort(p) == p \in Text /\ Without(":", p)

\* scheme:// in front, as every URL of a client's request has.
HasScheme(url) ==
  /\ url[1] # ":"
  /\ \E k \in 1 .. Len(url) - 3 : SubSeq(url, k + 1, k + 3) = <<":", "/", "/">>

ASSUME TextAssumption ==
  /\ \A q \in PathQueries : q[1] \in Text /\ q[2] \in Text
  /\ \A q \in ScriptQueries : q[1] \in Seq(Text) /\ q[2] \in Text /\ HasScheme(q[2])

ASSUME HostAssumption ==
  /\ \A q \in HostQueries :
       /\ q[1] \in Seq(Text) /\ \A i \in DOMAIN q[1] : IsHostPattern(q[1][i])
       /\ q[2] \in Seq(Text) /\ \A i \in DOMAIN q[2] : IsHostPattern(q[2][i])
       /\ IsHostName(q[3]) /\ IsPort(q[4])
  /\ \A q \in SchemaQueries :
       /\ \A p \in q[1] : IsHostPattern(p) /\ p # << >>
       /\ IsHostName(q[2]) /\ IsPort(q[3])

\* strings.ToLower, for the one letter that has an upper-case form here.
ToLower(s) == [i \in DOMAIN s |-> IF s[i] = "A" THEN "a" ELSE s[i]]

Drop(s, n) == SubSeq(s, n + 1, Len(s))

\* strings.Index, counted from 1, 0 for -1.
Index(s, part) ==
  LET at == {i \in 1 .. Len(s) - Len(part) + 1 :
               SubSeq(s, i, i + Len(part) - 1) = part}
  IN  IF at = {} THEN 0 ELSE CHOOSE i \in at : \A j \in at : i <= j

\* strings.Split at the stars.
Split(p) ==
  LET stars == {i \in DOMAIN p : p[i] = "*"}
      f[n \in 0 .. Len(p)] ==
        IF n = 0 THEN << << >> >>
        ELSE IF n \in stars THEN Append(f[n - 1], << >>)
        ELSE [f[n - 1] EXCEPT ![Len(f[n - 1])] = Append(@, p[n])]
  IN  f[Len(p)]

\* What p says when every star stands for some string: the reference.  The ends are the
\* lengths of the prefixes of s that the first i characters of p describe.
Glob(p, s) ==
  LET ends[i \in 0 .. Len(p)] ==
        IF i = 0 THEN {0}
        ELSE LET before == ends[i - 1]
             IN  IF p[i] = "*" THEN {k \in 0 .. Len(s) : \E j \in before : j <= k}
                 ELSE {k \in 1 .. Len(s) : k - 1 \in before /\ s[k] = p[i]}
  IN  Len(s) \in ends[Len(p)]

-----------------------------------------------------------------------------
(* scripting/glob.go *)

\* What the middle parts leave of s, << >> if they do not occur in it: each takes its
\* first occurrence.
AfterMiddle(parts, s) ==
  LET rest[i \in 0 .. Len(parts) - 2] ==
        IF i = 0 THEN <<Drop(s, Len(parts[1]))>>
        ELSE LET before == rest[i - 1]
                 at == Index(before[1], parts[i + 1])
             IN  IF before = << >> \/ at = 0 THEN << >>
                 ELSE <<Drop(before[1], at - 1 + Len(parts[i + 1]))>>
  IN  rest[Len(parts) - 2]

\* The last part is looked for in the whole string, not in what is left.
wildcardMatchOverlaps(pattern, s) ==
  LET parts == Split(pattern) IN
  IF Len(parts) = 1 THEN pattern = s
  ELSE /\ IsPrefix(parts[1], s)
       /\ AfterMiddle(parts, s) # << >>
       /\ IsSuffix(Last(parts), s)

wildcardMatch(pattern, s) ==
  LET parts == Split(pattern) IN
  IF Len(parts) = 1 THEN pattern = s
  ELSE /\ IsPrefix(parts[1], s)
       /\ AfterMiddle(parts, s) # << >>
       /\ IsSuffix(Last(parts), AfterMiddle(parts, s)[1])

\* strings.Cut: before and after the first occurrence of sep.
Cut(s, sep) ==
  LET at == Index(s, sep)
  IN  [found |-> at # 0, before |-> SubSeq(s, 1, at - 1), after |-> Drop(s, at - 1 + Len(sep))]

splitScheme(s) ==
  LET c == Cut(s, <<":", "/", "/">>)
  IN  IF c.found THEN [scheme |-> c.before, rest |-> c.after]
      ELSE [scheme |-> << >>, rest |-> s]

splitHostPath(s) ==
  LET c == Cut(s, <<"/">>)
  IN  IF c.found THEN [host |-> c.before, path |-> <<"/">> \o c.after]
      ELSE [host |-> s, path |-> << >>]

\* path.Match on a name without a slash: a star stands for any string.  Patterns with
\* the other special characters (? [ \) are not among the queries.
pathMatch(pattern, name) == Glob(pattern, name)

\* The host and the path are matched as one string, stars and all.
GlobMatchJoined(pattern, url) ==
  LET p == splitScheme(ToLower(pattern))
      u == splitScheme(ToLower(url))
  IN  /\ p.scheme = <<"*">> \/ p.scheme = u.scheme
      /\ wildcardMatch(p.rest, u.rest)

GlobMatch(pattern, url) ==
  LET p == splitScheme(ToLower(pattern))
      u == splitScheme(ToLower(url))
      ph == splitHostPath(p.rest)
      uh == splitHostPath(u.rest)
  IN  /\ p.scheme = <<"*">> \/ p.scheme = u.scheme
      /\ pathMatch(ph.host, uh.host)
      /\ wildcardMatch(ph.path, uh.path)

GlobMatchAny(patterns, url) == \E i \in DOMAIN patterns : GlobMatch(patterns[i], url)

-----------------------------------------------------------------------------
(* hostfilter/hostfilter.go *)

\* The suffix without its dot.
matchHostDotless(pattern, host) ==
  LET p == ToLower(pattern)
  IN  IF IsPrefix(<<"*", ".">>, p) THEN IsSuffix(Drop(p, 2), host) ELSE p = host

matchHost(pattern, host) ==
  LET p == ToLower(pattern)
  IN  IF IsPrefix(<<"*", ".">>, p) THEN IsSuffix(Tail(p), host) ELSE p = host

\* host[:strings.LastIndex(host, ":")], or all of it.
StripPort(host) ==
  LET colons == {i \in DOMAIN host : host[i] = ":"}
  IN  IF colons = {} THEN host
      ELSE SubSeq(host, 1, (CHOOSE i \in colons : \A j \in colons : j <= i) - 1)

ShouldIntercept(block, allow, host) ==
  LET h == ToLower(StripPort(host))
      matches(patterns) == \E i \in DOMAIN patterns : matchHost(patterns[i], h)
  IN  IF Len(allow) > 0 THEN matches(allow) ELSE ~matches(block)

-----------------------------------------------------------------------------
(* bodydecoder/host_registry.go *)

\* No key: that of the global schemas.
Fallback == << >>

\* The star may stand for nothing.
matchHostPatternEmpty(pattern, host) == IsSuffix(Drop(pattern, 2), host)

matchHostPattern(pattern, host) ==
  IsSuffix(Tail(pattern), host) /\ Len(host) > Len(Tail(pattern))

\* The patterns whose registry Resolve may answer with: the exact one, else any wildcard
\* that matches, since a Go map is read in any order, else the fallback.  The host is put
\* in lower case and the patterns are not, unlike those of --block and --allow: a key with
\* an upper-case letter matches no host.
Resolve(patterns, host) ==
  LET h == ToLower(StripPort(host))
      wild == {p \in patterns : IsPrefix(<<"*", ".">>, p) /\ matchHostPattern(p, h)}
  IN  IF h \in patterns THEN {h}
      ELSE IF wild = {} THEN {Fallback}
      ELSE wild

-----------------------------------------------------------------------------

PatInit ==
  \/ Ask("path", PathQueries)
  \/ Ask("script", ScriptQueries)
  \/ Ask("host", HostQueries)
  \/ Ask("schema", SchemaQueries)

\* GlobMatch's last step, asked by itself.
MatchPath == Answer("path", wildcardMatch(query[1], query[2]))

\* matchesURL of a script that came from the directory.
MatchScript == Answer("script", GlobMatchAny(query[1], query[2]))

\* The host of a request as net/http has it: with its port, if the client gave one.
HostText(name, port) == IF port = << >> THEN name ELSE name \o <<":">> \o port

FilterHost ==
  Answer("host", ShouldIntercept(query[1], query[2], HostText(query[3], query[4])))

ChooseSchema ==
  /\ kind = "schema"
  /\ \E r \in Resolve(query[1], HostText(query[2], query[3])) : Answer("schema", r)

PatNext == MatchPath \/ MatchScript \/ FilterHost \/ ChooseSchema

PatSpec == PatInit /\ [][PatNext]_queryVars

-----------------------------------------------------------------------------
(* Properties *)

\* "wildcardMatch matches s against pattern where * matches any substring": taking the
\* first occurrence of every middle part, and the last part as a suffix of what is left,
\* finds a match exactly when there is one.
WildcardIsGlob == Answered("path") => (Result <=> Glob(query[1], query[2]))

\* The text before the first slash after the scheme.
HostOf(s) ==
  LET rest == splitScheme(s).rest
      NoSlash(h) == \A i \in DOMAIN h : h[i] # "/"
  IN  CHOOSE h \in Prefixes(rest) :
        NoSlash(h) /\ \A g \in Prefixes(rest) : NoSlash(g) => Len(g) <= Len(h)

\* A script runs only on the URLs its patterns describe: one of them matches the whole
\* URL with every star standing for some string, and the stars of the path never reach
\* into the host, so that a script for one host does not run on another.
MatchIsSound ==
  Answered("script") /\ Result =>
     \E i \in DOMAIN query[1] :
        LET p == ToLower(query[1][i])
            u == ToLower(query[2])
        IN  Glob(p, u) /\ Glob(HostOf(p), HostOf(u))

\* The host filter decides as the pattern lists say when a star stands for some string,
\* whether or not the host comes with a port: only allowed hosts are intercepted if there
\* is an allow list, else all but the blocked ones.  The rule at CONNECT sees the port,
\* the guard in Requestheaders may not, and a tunneled host must be hidden by both.
FilterIsGlob ==
  LET Listed(patterns) ==
        \E i \in DOMAIN patterns : Glob(ToLower(patterns[i]), ToLower(query[3]))
  IN  Answered("host") =>
        (Result <=> IF query[2] # << >> THEN Listed(query[2]) ELSE ~Listed(query[1]))

\* The schemas of a body are those of a key that describes its host with the star standing
\* for some string, the exact key before any wildcard, and the global ones only if no key
\* does: when the keys are written in lower case (SchemaKeysIgnoreCase is without that).
SchemaIsOfHost ==
  LET host == ToLower(query[2])
      keys == {p \in query[1] : Glob(ToLower(p), host)}
  IN  Answered("schema") /\ (\A p \in query[1] : ToLower(p) = p) =>
        /\ Result = Fallback <=> keys = {}
        /\ host \in keys => Result = host
        /\ keys # {} => Result \in keys

\* Both kinds of host patterns mean what their stars say.
HostPatternsAreGlobs == FilterIsGlob /\ SchemaIsOfHost

-----------------------------------------------------------------------------
(* What the documentation says and the code does not do: TLC refutes each  *)
(* of these (README, "Divergences").                                       *)

\* "In the host part, * matches a single domain label": a host pattern and a host it
\* matches have equally many labels.
HostStarIsOneLabel ==
  LET Labels(h) == Cardinality({i \in DOMAIN h : h[i] = "."}) IN
  Answered("script") /\ Result =>
     \E i \in DOMAIN query[1] :
        Labels(HostOf(query[1][i])) = Labels(HostOf(query[2]))

\* "URL patterns to match -- * wildcards supported", and the template of a new script:
\* match "*", "Modify request before it is sent".  A pattern that describes the URL
\* with every star standing for some string makes the script run.
StarIsWildcard ==
  Answered("script") /\ (\E i \in DOMAIN query[1] :
                            Glob(ToLower(query[1][i]), ToLower(query[2]))) => Result

\* "--allow "api.example.*"  # Only intercept matching hosts": a star at the end of a host
\* pattern stands for some string too.
StarAtTheEndAllows ==
  LET p == <<"a", ".", "*">> IN
  Answered("host") /\ Glob(p, ToLower(query[3]))
    => ShouldIntercept(<< >>, <<p>>, HostText(query[3], query[4]))

\* "Strip port if present": of an address with colons of its own only the port is cut.
OnlyPortIsStripped ==
  LET address == <<"[", ":", ":", "]">> IN
  Answered("host") => StripPort(HostText(address, query[4])) = address

\* "Host keys support wildcards (glob matching, reuse `hostfilter` logic)", and hostfilter
\* puts its patterns in lower case: a key with upper-case letters is found too.
SchemaKeysIgnoreCase ==
  Answered("schema") /\ (\E p \in query[1] : Glob(ToLower(p), ToLower(query[2])))
    => Result # Fallback
=============================================================================
