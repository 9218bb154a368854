------------------------------ MODULE Filesystem ------------------------------
(***************************************************************************)
(* The calls on the files of a sandbox (sandbox/filesystem/mod.rs, io.rs,  *)
(* envd/rest.rs), each one request: what is asked, what envd does with it  *)
(* and answers, what the SDK makes of the answer, and what its             *)
(* documentation promises of it.                                           *)
(*                                                                         *)
(* A request is [op, path, user, arg].  The arg of a write is              *)
(* [data, octet, gzip, meta]: octet is use_octet_stream ("unset", "yes" or *)
(* "no"), meta is "none", "good" or "bad"; that of write_files is          *)
(* [files, meta], the files a sequence of <<path, data>>; of a rename it   *)
(* is the new path, of a list the depth, of watch_dir the set of the       *)
(* options asked for.  What a watch_dir answered brings is WatchHandle.    *)
(***************************************************************************)
EXTENDS Errors, Versions, Tree

FsStore(version, tree) == [api |-> "files", version |-> version, tree |-> tree]

Ask(op, path, user, arg) == [op |-> op, path |-> path, user |-> user, arg |-> arg]

-----------------------------------------------------------------------------
(* Before the request.                                                     *)

\* write_headers: the error of a write whose metadata cannot go along.
WriteHeaders(version, meta) ==
  IF meta # "none" /\ ~ VersionGte(version, ENVD_FILE_METADATA) THEN {Err("Template")}
  ELSE IF meta = "bad" THEN {Err("InvalidArgument")}
  ELSE {}

\* The envd that a watch needs for an option (watch_dir).
Since(option) == CASE option = "recursive"            -> ENVD_VERSION_RECURSIVE_WATCH
                   [] option = "include_entry"        -> ENVD_VERSION_FS_EVENT_ENTRY_INFO
                   [] option = "allow_network_mounts" -> ENVD_VERSION_WATCH_NETWORK_MOUNTS

CanWatch(version, options) == \A o \in options : VersionGte(version, Since(o))

\* What the SDK says without asking, if it does.
FsRefuses(s, r) ==
  CASE r.op = "list" /\ r.arg < 1 -> {Err("InvalidArgument")}
    [] r.op = "write_files" -> IF r.arg.files = << >> THEN {Ok({})}
                               ELSE WriteHeaders(s.version, r.arg.meta)
    [] r.op = "write" -> WriteHeaders(s.version, r.arg.meta)
    [] r.op = "watch_dir" /\ ~ CanWatch(s.version, r.arg) -> {Err("Template")}
    [] OTHER -> {}

\* How the body of a write travels.  With gzip it is an octet stream even where
\* use_octet_stream says Some(false), which io.rs:24 says forces multipart.
Form(s, r) == IF /\ r.arg.octet = "yes" \/ r.arg.gzip
                 /\ VersionGte(s.version, ENVD_OCTET_STREAM_UPLOAD)
              THEN "octet" ELSE "multipart"

-----------------------------------------------------------------------------
(* envd.                                                                   *)

Reply(s, a)    == {[store |-> s, answer |-> a]}
Change(s, t, a) == Reply([s EXCEPT !.tree = t], a)

\* The files of a batch are written one by one, and one may not fit.
Written(t, files, n) ==
  LET After[k \in 0..Len(files)] == IF k = 0 THEN t
                                     ELSE Placed(After[k-1], files[k][1], files[k][2])
  IN  After[n]
CanWrite(t, p) == Reachable(t, p) /\ Entry(t, p) # "dir"

ServeBatch(s, files) ==
  UNION {LET t == Written(s.tree, files, n) IN
           IF n = Len(files)
           THEN Change(s, t, Success({files[k][1] : k \in 1..n}))
           ELSE Change(s, t, Bare(IF CanWrite(t, files[n+1][1]) THEN 507 ELSE 400))
         : n \in {m \in 0..Len(files) :
                    \A k \in 1..m : CanWrite(Written(s.tree, files, k - 1), files[k][1])}}

\* Responses that are not about the entry: a proxy's, a server at its limit, a
\* method that this envd has not.  The aborted and unimplemented ones share their
\* status with an entry that exists and with one that does not.
RpcTroubles  == {Bare(502), Named(409, "aborted"), Named(404, "unimplemented"),
                 Numbered(500, 503)}
RestTroubles == {Bare(502), Bare(500)}
IsRpc(op) == op \notin {"read", "write", "write_files"}

\* Any success may be answered with a body that does not decode.
OrGarbled(outs) == outs \union {[o EXCEPT !.answer = Garbled] :
                                   o \in {x \in outs : x.answer.http = 200}}

ServeFiles(s, r) ==
  LET t == s.tree
      p == r.path
      missing == Named(404, "not_found")
  IN
  CASE r.op \in {"get_info", "exists"} ->
         Reply(s, IF Here(t, p) THEN Success(Entry(t, p)) ELSE missing)
    [] r.op = "list" ->
         Reply(s, IF ~ Here(t, p) THEN missing
                  ELSE IF Entry(t, p) # "dir" THEN Named(400, "invalid_argument")
                  ELSE Success(Below(t, p, r.arg)))
    [] r.op = "watch_dir" ->
         Reply(s, IF ~ Here(t, p) THEN missing
                  ELSE IF Entry(t, p) # "dir" THEN Named(400, "invalid_argument")
                  ELSE Success("none"))
    [] r.op = "make_dir" ->
         IF Entry(t, p) = "dir" THEN Reply(s, Named(409, "already_exists"))
         ELSE IF Here(t, p) \/ ~ Reachable(t, p) THEN Reply(s, Named(400, "invalid_argument"))
         ELSE Change(s, Placed(t, p, "dir"), Success("dir"))
    [] r.op = "remove" ->
         IF Here(t, p) THEN Change(s, Removed(t, p), Success("none")) ELSE Reply(s, missing)
    [] r.op = "rename" ->
         IF ~ Here(t, p) THEN Reply(s, missing)
         ELSE IF MayMove(t, p, r.arg) THEN Change(s, Moved(t, p, r.arg), Success(t[p]))
         ELSE Reply(s, Named(500, "internal"))
    [] r.op = "read" ->
         Reply(s, IF ~ Here(t, p) THEN Bare(404)
                  ELSE IF Entry(t, p) \in {"dir", "odd"} THEN Bare(400)
                  ELSE Success(Entry(t, p)))
    [] r.op = "write" ->
         IF \/ Form(s, r) = "octet" /\ ~ VersionGte(s.version, ENVD_OCTET_STREAM_UPLOAD)
            \/ r.arg.meta # "none" /\ ~ VersionGte(s.version, ENVD_FILE_METADATA)
         THEN Reply(s, Bare(400))
         ELSE IF CanWrite(t, p)
         THEN Change(s, Placed(t, p, r.arg.data), Success({p})) \union Reply(s, Bare(507))
         ELSE Reply(s, Bare(400))
    [] r.op = "write_files" -> ServeBatch(s, r.arg.files)

FsServe(s, r) ==
  (UNION {Reply(s, a) : a \in IF IsRpc(r.op) THEN RpcTroubles ELSE RestTroubles})
  \union OrGarbled(IF User(s.version, r.user) = "none" /\ ~ VersionGte(s.version, ENVD_DEFAULT_USER)
                   THEN Reply(s, Bare(401)) ELSE ServeFiles(s, r))

-----------------------------------------------------------------------------
(* What the SDK makes of the answer.                                       *)

\* file_not_found_on_missing.
FileNotFoundOnMissing(result) == OnError(result, "NotFound", Err("FileNotFound"))

\* An entry of a type the SDK does not know comes to nothing (EntryInfo::from_proto).
EntryInfo(result) == OnError(IF result = Ok("odd") THEN Err("Internal") ELSE result,
                             "NotFound", Err("FileNotFound"))

GetInfo(a) == EntryInfo(Unary(a))

\* Fault (mutant of Exists): the status counts, whatever the code beside it.
ExistsByStatus(a) == IF a.http = 404 THEN Ok("false")
                     ELSE IF GetInfo(a)[1] = "ok" THEN Ok("true") ELSE GetInfo(a)
Exists(a) == LET info == GetInfo(a) IN
             IF info[1] = "ok" THEN Ok("true")
             ELSE OnError(info, "FileNotFound", Ok("false"))

FsResult(r, a) ==
  CASE r.op = "get_info" -> GetInfo(a)
    [] r.op = "exists" -> Exists(a)
    [] r.op = "list" ->
         LET reply == FileNotFoundOnMissing(Unary(a))
         IN  IF reply[1] = "ok" THEN Ok({e \in reply[2] : e[2] # "odd"}) ELSE reply
    [] r.op = "make_dir" ->
         LET reply == Unary(a)
         IN  IF reply[1] = "ok" THEN Ok("true")
             ELSE FileNotFoundOnMissing(OnError(reply, "Conflict", Ok("false")))
    [] r.op = "remove" -> FileNotFoundOnMissing(Unary(a))
    [] r.op = "watch_dir" -> FileNotFoundOnMissing(IF a.http = 200 THEN Ok("none") ELSE Unary(a))
    [] r.op = "rename" -> EntryInfo(Unary(a))
    [] r.op \in {"read", "write", "write_files"} -> FileNotFoundOnMissing(Rest(a))

-----------------------------------------------------------------------------
(* What the documentation promises: what a result says of the files, which *)
(* the call took from s to s2.                                             *)

Unsupported(s, r) ==
  IF r.op = "watch_dir"
  THEN \/ "recursive" \in r.arg /\ ~ VersionGte(s.version, 14)
       \/ "include_entry" \in r.arg /\ ~ VersionGte(s.version, 63)
       \/ "allow_network_mounts" \in r.arg /\ ~ VersionGte(s.version, 64)
  ELSE /\ r.op = "write" \/ (r.op = "write_files" /\ r.arg.files # << >>)
       /\ r.arg.meta # "none"
       /\ ~ VersionGte(s.version, 62)

\* The request fits what is there.
Fits(t, r) == CASE r.op = "list"     -> r.arg >= 1 /\ Entry(t, r.path) = "dir"
                [] r.op = "watch_dir" -> Entry(t, r.path) = "dir"
                [] r.op = "read"     -> t[r.path] \in Data
                [] r.op = "make_dir" -> Reachable(t, r.path) /\ t[r.path] \in {"absent", "dir"}
                [] r.op = "write"    -> CanWrite(t, r.path) /\ r.arg.meta # "bad"
                [] OTHER             -> FALSE

\* What a definite answer says.
FsMeans(t, r, t2, v) ==
  LET p == r.path IN
  CASE r.op = "get_info" -> t2 = t /\ Here(t, p) /\ v = Entry(t, p)
    [] r.op = "exists"   -> t2 = t /\ v = IF Here(t, p) THEN "true" ELSE "false"
    [] r.op = "watch_dir" -> t2 = t /\ Entry(t, p) = "dir"
    [] r.op = "list"     -> t2 = t /\ v = {e \in Below(t, p, r.arg) : e[2] # "odd"}
    [] r.op = "make_dir" -> IF Here(t, p) THEN v = "false" /\ t2 = t
                                          ELSE v = "true" /\ t2[p] = "dir"
    [] r.op = "remove"   -> Here(t, p) /\ t2 = Removed(t, p)
    [] r.op = "rename"   -> v = t[p] /\ t2[r.arg] = t[p] /\ t2[p] = "absent"
    [] r.op = "read"     -> t2 = t /\ t[p] \in Data /\ v = t[p]
    [] r.op = "write"    -> t2[p] = r.arg.data
    [] r.op = "write_files" -> t2 = Written(t, r.arg.files, Len(r.arg.files))

\* An error that is not about the entry leaves open whether the call did its work.
FsPromises(s, r, s2, result) ==
  IF Unsupported(s, r) THEN result = Err("Template") /\ s2 = s
  ELSE IF result[1] = "ok" THEN FsMeans(s.tree, r, s2.tree, result[2])
  ELSE CASE result[2] \in {"Timeout", "RateLimit", "Sandbox", "Internal"} -> TRUE
         [] result[2] = "NotEnoughSpace"  -> r.op \in {"write", "write_files"}
         [] result[2] = "FileNotFound"    -> s2 = s /\ ~ Here(s.tree, r.path)
         [] result[2] = "InvalidArgument" -> r.op = "write_files" \/ (s2 = s /\ ~ Fits(s.tree, r))
         [] OTHER -> FALSE
===============================================================================
