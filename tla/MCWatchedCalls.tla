---------------------------- MODULE MCWatchedCalls ----------------------------
(* WatchedCalls with each of the four servers, and small sets of requests:  *)
(* the envd of version 65 is the one whose directory d is watched.          *)
EXTENDS WatchedCalls, Filesystem, Volume, Processes, TemplateTags

f == <<"d", "f">>
d == <<"d">>
g == <<"g">>
MCPaths == {d, f, g}

Write(data, octet, gzip, meta) == [data |-> data, octet |-> octet, gzip |-> gzip, meta |-> meta]
Batch(files, meta) == [files |-> files, meta |-> meta]
FsRequests ==
  {Ask("watch_dir", f, "none", {o}) : o \in {"recursive", "include_entry"}}
  \union {Ask(op, p, "none", 0) : op \in {"exists", "make_dir"}, p \in {d, f}}
  \union {Ask(op, f, "none", 0) : op \in {"get_info", "read"}}
  \union {Ask("remove", d, "none", 0)}
  \union {Ask("list", d, "none", n) : n \in {0, 1}}
  \union {Ask("rename", d, "none", g), Ask("rename", g, "none", f)}
  \union {Ask("write", f, "none", a) :
            a \in {Write("x", "unset", FALSE, "bad"), Write("y", "yes", FALSE, "good"),
                  Write("y", "no", TRUE, "none")}}
  \union {Ask("write_files", << >>, "none", a) :
            a \in {Batch(<< >>, "good"), Batch(<< <<f, "y">>, <<d, "x">> >>, "none"),
                   Batch(<< <<g, "x">>, <<f, "x">> >>, "good")}}

\* Beside the watch; the process below writes.
WatchRequests ==
  {Ask("watch_dir", d, "none", {"allow_network_mounts"}), Ask("remove", f, "none", 0)}

VolRequests(tokens) ==
  {VolAsk("create", d, 0, 0, a) : a \in {"good", "bad"}}
  \union {VolAsk(op, d, 1, 0, 0) : op \in {"list", "get_info", "connect", "destroy"}}
  \union UNION {{VolAsk(op, f, t[1], t, 0) : op \in {"exists", "stat", "read_file"}}
                \union {VolAsk("remove", d, t[1], t, 0)}
                \union {VolAsk("list_dir", d, t[1], t, 1), VolAsk("update_metadata", f, t[1], t, 7)}
                \union {VolAsk("make_dir", d, t[1], t, [data |-> "none", force |-> FALSE])}
                \union {VolAsk("write_file", f, t[1], t, [data |-> "x", force |-> b]) : b \in BOOLEAN}
                : t \in tokens}

ProcRequests ==
  {ProcAsk("start", 0, "none", [pty |-> FALSE, stdin |-> i]) : i \in {"unset", "off"}}
  \union {ProcAsk("start", 0, "none", [pty |-> TRUE, stdin |-> "unset"])}
  \union {ProcAsk("list", 0, "none", 0)}
  \union {ProcAsk(op, p, "none", 0) : op \in {"kill", "connect", "close_stdin", "resize"}, p \in {1}}
  \union {ProcAsk("send_input", 1, "none", [pty |-> b, data |-> "x"]) : b \in BOOLEAN}

TagRequests ==
  {TagAsk(op, n, "none", {}) : op \in Existence \union {"get_tags"}, n \in Names}
  \union {TagAsk("assign_tags", n, b, {"v1"}) : n \in Names, b \in Builds}
  \union {TagAsk("remove_tags", n, "none", Tags) : n \in Names}

\* A volume with content and a handle, and a process, from earlier on.
OldVolume == [WithToken(VolStore, 1) EXCEPT !.vol[1] = "live", !.tree[d] = "dir", !.tree[f] = "x"]
OldProcess(v, pty) ==
  [ProcStore(v) EXCEPT !.proc[1] = Born(ProcStore(v), [pty |-> pty, stdin |-> "on"])]
MCGiven(s) == IF s.api = "volume" THEN s.valid ELSE {}

MCStarts(s) ==
  \/ s \in {FsStore(v, [p \in MCPaths |-> "absent"]) : v \in {Unparseable, 62}}
  \/ s = FsStore(65, [p \in MCPaths |-> IF p = d THEN "dir" ELSE "absent"])
  \/ s \in {VolStore, OldVolume}
  \/ s \in {OldProcess(29, FALSE), OldProcess(52, FALSE), OldProcess(52, TRUE)}
  \/ s \in TagStores

MCMaxCalls(s) == 2

\* f is in the directory d.
MCWatched(s, s2) ==
  IF s.api # "files" \/ s.version # 65 \/ s.tree[f] = s2.tree[f] THEN "none"
  ELSE IF s2.tree[f] = "odd" THEN "odd"
  ELSE IF s.tree[f] = "absent" THEN "create" ELSE IF s2.tree[f] = "absent" THEN "remove" ELSE "write"

MCAsks(s, k) == CASE s.api = "files"     -> IF s.version = 65 THEN WatchRequests ELSE FsRequests
                  [] s.api = "volume"    -> VolRequests(k)
                  [] s.api = "processes" -> ProcRequests
                  [] s.api = "tags"      -> TagRequests
MCRefuses(s, r) == CASE s.api = "files"     -> FsRefuses(s, r)
                     [] s.api = "volume"    -> VolRefuses(s, r)
                     [] s.api = "processes" -> ProcRefuses(s, r)
                     [] s.api = "tags"      -> {}
MCServe(s, r) == CASE s.api = "files"     -> FsServe(s, r)
                   [] s.api = "volume"    -> VolServe(s, r)
                   [] s.api = "processes" -> ProcServe(s, r)
                   [] s.api = "tags"      -> TagServe(s, r)
MCResult(r, a) == IF "user" \in DOMAIN r
                  THEN IF "path" \in DOMAIN r THEN FsResult(r, a) ELSE ProcResult(r, a)
                  ELSE IF "vol" \in DOMAIN r THEN VolResult(r, a) ELSE TagResult(r, a)
MCLearns(r, result) == IF "vol" \in DOMAIN r /\ r.op \in {"create", "connect"} /\ result[1] = "ok"
                       THEN {result[2]} ELSE {}
MCPromises(s, r, s2, result) ==
  CASE s.api = "files"     -> FsPromises(s, r, s2, result)
    [] s.api = "volume"    -> VolPromises(s, r, s2, result)
    [] s.api = "processes" -> ProcPromises(s, r, s2, result)
    [] s.api = "tags"      -> TagPromises(s, r, s2, result)
MCRefusable(s, r, result) == MCPromises(s, r, s, result)

\* A process in the sandbox makes a socket in d, or rewrites f.
FsDrift(s) == IF s.tree[d] # "dir" THEN {}
              ELSE {[s EXCEPT !.tree[f] = e] : e \in {"odd", "x"}}
MCDrift(s) == CASE s.api = "files"     -> FsDrift(s)
                [] s.api = "volume"    -> VolDrift(s)
                [] s.api = "processes" -> ProcDrift(s)
                [] s.api = "tags"      -> {}
===============================================================================
