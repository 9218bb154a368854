-------------------------------- MODULE Volume --------------------------------
(***************************************************************************)
(* Volumes (volume/control.rs, volume/client.rs): their making, listing    *)
(* and destruction on the control plane, and the calls on their content,   *)
(* which go to the content server with the token that create or connect    *)
(* gave the handle.  The token is short-lived, and a handle keeps the one  *)
(* it was made with.                                                       *)
(*                                                                         *)
(* A request is [op, path, vol, token, arg]: those on the control plane    *)
(* use no token.  The arg of make_dir and write_file is [data, force], of  *)
(* update_metadata the new mode, of list_dir the depth.                    *)
(***************************************************************************)
EXTENDS Errors, Tree, FiniteSets

CONSTANTS Vols  \* volume ids: a subset of Nat \ {0}

ASSUME VolumeAssumption == Vols \subseteq Nat \ {0}

\* The volumes, the tokens in force (a token is <<volume, n>>, the n-th made),
\* and the content and mode of the volume the content calls are about.
VolStore == [api |-> "volume", vol |-> [v \in Vols |-> "absent"],
             valid |-> {}, made |-> 0, tree |-> [p \in Paths |-> "absent"],
             mode |-> [p \in Paths |-> 0]]

VolAsk(op, path, vol, token, arg) ==
  [op |-> op, path |-> path, vol |-> vol, token |-> token, arg |-> arg]

OnPlane(op) == op \in {"create", "list", "get_info", "connect", "destroy"}

-----------------------------------------------------------------------------
(* Before the request.                                                     *)

\* A name that is none is refused by create.
VolRefuses(s, r) ==
  IF r.op = "create" /\ r.arg = "bad" THEN {Err("InvalidArgument")} ELSE {}

-----------------------------------------------------------------------------
(* The control plane, and the content server.                              *)

VolReply(s, a) == {[store |-> s, answer |-> a]}

\* A fresh token, number n of them all.
WithToken(s, v) == [s EXCEPT !.made = @ + 1, !.valid = @ \union {<<v, s.made + 1>>}]

ServeOnPlane(s, r) ==
  LET v == r.vol IN
  CASE r.op = "create" ->
         UNION {VolReply([WithToken(s, i) EXCEPT !.vol[i] = "live"],
                         Success(<<i, s.made + 1>>))
                : i \in {x \in Vols : s.vol[x] = "absent"}}
    [] r.op = "list" -> VolReply(s, Success({x \in Vols : s.vol[x] = "live"}))
    [] r.op \in {"get_info", "connect"} ->
         IF s.vol[v] = "live" THEN VolReply(WithToken(s, v), Success(<<v, s.made + 1>>))
                              ELSE VolReply(s, Bare(404))
    [] r.op = "destroy" ->
         IF s.vol[v] = "live"
         THEN VolReply([s EXCEPT !.vol[v] = "gone", !.tree = [p \in Paths |-> "absent"],
                                 !.mode = [p \in Paths |-> 0]], Success("none"))
         ELSE VolReply(s, Bare(404))

\* A parent that is missing: only force makes it.
MayPlace(t, p, force) == Reachable(t, p) /\ (force \/ Entry(t, Parent(p)) = "dir")

Places(s, p, e, a) ==
  VolReply([s EXCEPT !.tree = Placed(@, p, e)], a)

ServeContent(s, r) ==
  LET t == s.tree
      p == r.path
      missing == VolReply(s, Bare(404))
      stat == Success(<<Entry(t, p), s.mode[p]>>)
  IN
  CASE r.op = "list_dir" -> IF Entry(t, p) = "dir" THEN VolReply(s, Success(Below(t, p, r.arg)))
                            ELSE IF Here(t, p) THEN VolReply(s, Bare(400)) ELSE missing
    [] r.op \in {"stat", "exists"} -> IF Here(t, p) THEN VolReply(s, stat) ELSE missing
    [] r.op = "update_metadata" ->
         IF Here(t, p) THEN VolReply([s EXCEPT !.mode[p] = r.arg], Success(<<Entry(t, p), r.arg>>))
                       ELSE missing
    [] r.op = "remove" ->
         IF Here(t, p)
         THEN VolReply([s EXCEPT !.tree = Removed(t, p),
                                 !.mode = [q \in Paths |-> IF q \in From(p) THEN 0 ELSE @[q]]],
                       Success("none"))
         ELSE missing
    [] r.op \in {"read_file", "read_file_stream"} ->
         IF Entry(t, p) \in Data THEN VolReply(s, Success(Entry(t, p)))
         ELSE IF Here(t, p) THEN VolReply(s, Bare(400)) ELSE missing
    [] r.op = "make_dir" ->
         IF Here(t, p) THEN VolReply(s, IF r.arg.force /\ Entry(t, p) = "dir" THEN stat ELSE Bare(409))
         ELSE IF MayPlace(t, p, r.arg.force) THEN Places(s, p, "dir", Success(<<"dir", 0>>))
         ELSE missing
    [] r.op = "write_file" ->
         IF Entry(t, p) = "dir" THEN VolReply(s, Bare(409))
         ELSE IF MayPlace(t, p, r.arg.force)
         THEN Places(s, p, r.arg.data, Success(<<r.arg.data, s.mode[p]>>)) \union VolReply(s, Bare(507))
         ELSE missing

VolTroubles == {Bare(502), Bare(500)}

VolServe(s, r) ==
  LET outs == IF OnPlane(r.op) THEN ServeOnPlane(s, r)
              ELSE IF r.token \notin s.valid THEN VolReply(s, Bare(401))
              ELSE IF s.vol[r.vol] # "live" THEN VolReply(s, Bare(404))
              ELSE ServeContent(s, r)
  IN  outs \union {[o EXCEPT !.answer = Garbled] : o \in {x \in outs : x.answer.http = 200}}
           \union UNION {VolReply(s, a) : a \in VolTroubles}

\* Tokens run out; other users change the content.
VolDrift(s) == {[s EXCEPT !.valid = @ \ {t}] : t \in s.valid}

-----------------------------------------------------------------------------
(* What the SDK makes of the answer.                                       *)

VolExists(a) == IF Rest(a)[1] = "ok" THEN Ok("true") ELSE OnError(Rest(a), "NotFound", Ok("false"))

\* destroy and remove look at no body.
Unit(a) == IF a.http \in 200..299 THEN Ok("none") ELSE Rest(a)

VolResult(r, a) ==
  CASE r.op = "exists"  -> VolExists(a)
    [] r.op = "destroy" -> IF Unit(a)[1] = "ok" THEN Ok("true")
                           ELSE OnError(Unit(a), "NotFound", Ok("false"))
    [] r.op = "remove"  -> Unit(a)
    [] OTHER            -> Rest(a)

-----------------------------------------------------------------------------
(* What the documentation promises.                                        *)

\* The call got through to the content.
Admitted(s, r) == OnPlane(r.op) \/ (r.token \in s.valid /\ s.vol[r.vol] = "live")

VolMeans(s, r, s2, v) ==
  LET t == s.tree
      p == r.path
  IN
  CASE r.op = "create"   -> /\ s.vol[v[1]] = "absent" /\ s2.vol[v[1]] = "live"
                            /\ v \in s2.valid \ s.valid
    [] r.op = "list"     -> v = {x \in Vols : s.vol[x] = "live"} /\ s2 = s
    [] r.op \in {"get_info", "connect"} ->
         s.vol[r.vol] = "live" /\ v[1] = r.vol /\ v \in s2.valid \ s.valid
    [] r.op = "destroy"  -> /\ s2.vol[r.vol] # "live"
                            /\ v = IF s.vol[r.vol] = "live" THEN "true" ELSE "false"
    [] r.op = "list_dir" -> s2 = s /\ Entry(t, p) = "dir" /\ v = Below(t, p, r.arg)
    [] r.op = "stat"     -> s2 = s /\ Here(t, p) /\ v = <<t[p], s.mode[p]>>
    [] r.op = "update_metadata" -> Here(t, p) /\ s2.mode[p] = r.arg /\ v = <<t[p], r.arg>>
    [] r.op = "remove"   -> Here(t, p) /\ s2.tree = Removed(t, p)
    [] r.op \in {"read_file", "read_file_stream"} -> s2 = s /\ t[p] \in Data /\ v = t[p]
    [] r.op = "make_dir" -> s2.tree[p] = "dir" /\ v[1] = "dir"
    [] r.op = "write_file" -> s2.tree[p] = r.arg.data /\ v[1] = r.arg.data

\* exists is asked of a volume, too, that is no more.
VolSays(s, r, s2, v) ==
  IF r.op # "exists" THEN Admitted(s, r) /\ VolMeans(s, r, s2, v)
  ELSE /\ s2 = s /\ r.token \in s.valid
       /\ v = IF s.vol[r.vol] = "live" /\ Here(s.tree, r.path) THEN "true" ELSE "false"

\* No error stands for another: a token run out is no missing path.
VolPromises(s, r, s2, result) ==
  IF result[1] = "ok" THEN VolSays(s, r, s2, result[2])
  ELSE CASE result[2] \in {"Timeout", "Sandbox", "Internal"} -> TRUE
         [] result[2] = "Authentication" -> s2 = s /\ r.token \notin s.valid /\ ~ OnPlane(r.op)
         [] result[2] = "NotFound" ->
              /\ s2 = s
              /\ IF OnPlane(r.op) THEN s.vol[r.vol] # "live" /\ r.op \in {"get_info", "connect"}
                 ELSE s.vol[r.vol] # "live" \/ ~ Here(s.tree, r.path)
         [] result[2] = "InvalidArgument" -> s2 = s
         [] result[2] = "Conflict" -> s2 = s /\ Here(s.tree, r.path)
         [] result[2] = "NotEnoughSpace" -> s2 = s /\ r.op = "write_file"
         [] OTHER -> FALSE
===============================================================================
