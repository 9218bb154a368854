----------------------------- MODULE TemplateTags -----------------------------
(***************************************************************************)
(* Template::exists and alias_exists, assign_tags, remove_tags and         *)
(* get_tags (template/tags.rs): one request each on the control plane.     *)
(*                                                                         *)
(* A request is [op, name, build, tags].                                   *)
(***************************************************************************)
EXTENDS Errors

CONSTANTS Names,   \* of templates
          Builds,  \* build ids: strings, "none" not among them
          Tags

ASSUME TagsAssumption == "none" \notin Builds

\* A name belongs to nobody, to the caller's team or to another, and every tag
\* of a template points at one of its builds, or does not exist.
TagStores == {[api |-> "tags", owner |-> o, tag |-> [n \in Names |-> [t \in Tags |-> "none"]]]
              : o \in [Names -> {"nobody", "mine", "theirs"}]}

TagAsk(op, name, build, tags) == [op |-> op, name |-> name, build |-> build, tags |-> tags]

\* The tags that exist, with the builds they point at.
Assigned(s, n) == {<<t, s.tag[n][t]>> : t \in {x \in Tags : s.tag[n][x] # "none"}}

Point(s, n, tags, b) ==
  [s EXCEPT !.tag[n] = [t \in Tags |-> IF t \in tags THEN b ELSE s.tag[n][t]]]

-----------------------------------------------------------------------------
(* The control plane.                                                      *)

TagReply(s, a) == {[store |-> s, answer |-> a]}

\* The two calls that ask for an alias.
Existence == {"exists", "alias_exists"}

ServeTags(s, r) ==
  LET n == r.name IN
  IF s.owner[n] = "nobody" THEN TagReply(s, Bare(404))
  ELSE IF s.owner[n] = "theirs" THEN TagReply(s, Bare(403))
  ELSE CASE r.op \in Existence    -> TagReply(s, Success("none"))
         [] r.op = "assign_tags" -> TagReply(Point(s, n, r.tags, r.build), Success(<<r.build, r.tags>>))
         [] r.op = "remove_tags" -> TagReply(Point(s, n, r.tags, "none"), Success("none"))
         [] r.op = "get_tags"    -> TagReply(s, Success(Assigned(s, n)))

TagServe(s, r) ==
  LET outs == ServeTags(s, r)
  IN  outs \union {[o EXCEPT !.answer = Garbled] : o \in {x \in outs : x.answer.http = 200}}
           \union UNION {TagReply(s, a) : a \in {Bare(401), Bare(429), Bare(500)}}

-----------------------------------------------------------------------------
(* What the SDK makes of the answer: exists and remove_tags read no body.  *)

NoBody(a) == IF a.http \in 200..299 THEN Ok("none") ELSE Rest(a)

AliasExists(a) ==
  LET reply == NoBody(a) IN
  IF reply[1] = "ok" THEN Ok("true")
  ELSE OnError(OnError(reply, "NotFound", Ok("false")), "Forbidden", Ok("true"))

\* alias_exists is exists (its delegate), a 403 included.
TagResult(r, a) == CASE r.op \in Existence    -> AliasExists(a)
                     [] r.op = "remove_tags" -> NoBody(a)
                     [] OTHER                -> Rest(a)

-----------------------------------------------------------------------------
(* What the documentation promises.  Of alias_exists nothing is asked where *)
(* the name is another team's: its documentation (tags.rs:162-170) has     *)
(* every status but 200 and 404 an Err, and the code says true of a 403.   *)

TagMeans(s, r, s2, v) ==
  LET n == r.name IN
  CASE r.op \in Existence    -> /\ s2 = s
                               /\ \/ r.op = "alias_exists" /\ s.owner[n] = "theirs"
                                  \/ v = IF s.owner[n] = "nobody" THEN "false" ELSE "true"
    [] r.op = "assign_tags" -> v = <<r.build, r.tags>> /\ \A t \in r.tags : s2.tag[n][t] = r.build
    [] r.op = "remove_tags" -> \A t \in r.tags : s2.tag[n][t] = "none"
    [] r.op = "get_tags"    -> s2 = s /\ v = Assigned(s, n)

TagPromises(s, r, s2, result) ==
  IF result[1] = "ok" THEN TagMeans(s, r, s2, result[2])
  ELSE CASE result[2] \in {"Authentication", "RateLimit", "Sandbox", "Internal"} -> TRUE
         [] result[2] = "NotFound"  -> s2 = s /\ s.owner[r.name] = "nobody" /\ r.op \notin Existence
         [] result[2] = "Forbidden" -> s2 = s /\ s.owner[r.name] = "theirs" /\ r.op \notin Existence
         [] OTHER -> FALSE
===============================================================================
