------------------------------ MODULE LuaRequire ----------------------------
(***************************************************************************)
(* require (loadlib.c:257-616): the paths that ailua extends, the searchers,*)
(* the C libraries that stay open until the state is closed, and loaders    *)
(* that require other modules, fail, or tamper with package.loaded.         *)
(***************************************************************************)
EXTENDS Naturals, Sequences, SequencesExt, FiniteSets

CONSTANTS
    Names,        \* names of modules, sequences of characters
    Files,        \* readable file -> [k |-> "lua"], [k |-> "bad"], [k |-> "lib", syms]
    Environment,  \* LUA_PATH, or NoPath
    NoPath,
    Default,      \* LUA_PATH_DEFAULT
    CPath,        \* package.cpath
    Extras,       \* what scripts and _set_lua_path append to package.path
    Requires(_),  \* the modules that a loader requires
    Tampers,      \* BOOLEAN: scripts assign to package.loaded, loaders return false
    MAXCCALLS,    \* bound: requires inside each other
    Preloads,     \* modules that scripts put into package.preload
    MaxRuns,      \* bound: runs of loaders
    MaxPath       \* bound: length of a path

VARIABLES
    path, preload,
    loaded,   \* name -> "nil", "false", "table", "true"
    clibs,    \* registry.CLIBS: [map, list], and the open handles, counted by file
    frames,   \* the loaders that run: [name, loader, caught]
    runs,     \* runs of loaders
    done,     \* name -> runs that came to an end
    closed

vars == <<path, preload, loaded, clibs, frames, runs, done, closed>>

toboolean(v) == v \notin {"nil", "false"}

(***************************************************************************)
(* Paths.                                                                   *)
(***************************************************************************)
luaL_gsub(s, c, d) == FlattenSeq([i \in DOMAIN s |-> IF s[i] = c THEN d ELSE <<s[i]>>])
Nowhere == <<"">>

\* Double separators stand for the default.
RECURSIVE WithDefault(_, _)
WithDefault(p, dft) ==
    IF Len(p) < 2 THEN p
    ELSE IF p[1] = ";" /\ p[2] = ";" THEN <<";">> \o dft \o <<";">> \o WithDefault(SubSeq(p, 3, Len(p)), dft)
    ELSE <<p[1]>> \o WithDefault(Tail(p), dft)

setpath == IF Environment = NoPath THEN Default ELSE WithDefault(Environment, Default)

pushnexttemplate(p) ==
    LET starts == {i \in DOMAIN p : p[i] # ";"}
        b == CHOOSE i \in starts : \A j \in starts : i <= j
        ends == {i \in DOMAIN p : i > b /\ p[i] = ";"} \cup {Len(p) + 1}
        e == CHOOSE i \in ends : \A j \in ends : i <= j
    IN  IF starts = {} THEN [found |-> FALSE, t |-> <<>>, rest |-> <<>>]
        ELSE [found |-> TRUE, t |-> SubSeq(p, b, e - 1), rest |-> SubSeq(p, e, Len(p))]

readable(file) == file \in DOMAIN Files

RECURSIVE searchpath(_, _)
searchpath(name, p) ==
    LET Try(file, rest) == IF readable(file) THEN file ELSE searchpath(name, rest)
        Next_(n) == IF ~n.found THEN Nowhere
                    ELSE Try(luaL_gsub(n.t, "?", luaL_gsub(name, ".", <<"/">>)), n.rest)
    IN  Next_(pushnexttemplate(p))

(***************************************************************************)
(* C libraries.  What is looked for is found (0) or is not there; the       *)
(* library stays open.                                                      *)
(***************************************************************************)
checkclib(c, file) == file \in c.map
\* Mutant: the list of handles is forgotten.
addtoclib_map(c, file) == [c EXCEPT !.map = @ \cup {file}]
addtoclib(c, file) == [c EXCEPT !.map = @ \cup {file}, !.list = Append(@, file)]
lsys_load(c, file) == [c EXCEPT !.open[file] = @ + 1]

lookforfunc(c, file, sym) ==
    LET known == checkclib(c, file)
        now == IF known THEN c ELSE addtoclib(lsys_load(c, file), file)
    IN  IF Files[file].k # "lib" THEN [clibs |-> c, stat |-> "ERRLIB", sym |-> sym]
        ELSE [clibs |-> now, stat |-> IF sym \in Files[file].syms THEN "ok" ELSE "ERRFUNC", sym |-> sym]

loadfunc(c, file, name) ==
    LET n == luaL_gsub(name, ".", <<"_">>)
        mark == IF "-" \in ToSet(n) THEN CHOOSE i \in DOMAIN n : n[i] = "-" /\ \A j \in 1 .. i - 1 : n[j] # "-" ELSE 0
        Then(first) == IF first.stat # "ERRFUNC" THEN first
                       ELSE lookforfunc(first.clibs, file, SubSeq(n, mark + 1, Len(n)))
    IN  IF mark = 0 THEN lookforfunc(c, file, n) ELSE Then(lookforfunc(c, file, SubSeq(n, 1, mark - 1)))

(***************************************************************************)
(* The searchers: a loader, nothing, or an error; and the libraries then.   *)
(***************************************************************************)
Answer(k, file, sym, c) == [k |-> k, loader |-> [file |-> file, sym |-> sym], clibs |-> c]
Nothing(c) == Answer("none", Nowhere, <<>>, c)
AnyError(c) == Answer("error", Nowhere, <<>>, c)

searcher_preload(c, name) ==
    IF name \in preload THEN Answer("loader", Nowhere, <<>>, c) ELSE Nothing(c)

searcher_Lua(c, name) ==
    LET file == searchpath(name, path) IN
    IF file = Nowhere THEN Nothing(c)
    ELSE IF Files[file].k # "lua" THEN AnyError(c)
    ELSE Answer("loader", file, <<>>, c)

searcher_C(c, name) ==
    LET Opened(file, l) ==
            IF l.stat # "ok" THEN AnyError(l.clibs) ELSE Answer("loader", file, l.sym, l.clibs)
        Found(file) == IF file = Nowhere THEN Nothing(c) ELSE Opened(file, loadfunc(c, file, name))
    IN  Found(searchpath(name, CPath))

searcher_Croot(c, name) ==
    LET dot == CHOOSE i \in DOMAIN name : name[i] = "." /\ \A j \in 1 .. i - 1 : name[j] # "."
        Opened(file, l) ==
            CASE l.stat = "ok" -> Answer("loader", file, l.sym, l.clibs)
              [] l.stat = "ERRFUNC" -> Nothing(l.clibs)
              [] l.stat = "ERRLIB" -> AnyError(l.clibs)
        Found(file) == IF file = Nowhere THEN Nothing(c) ELSE Opened(file, loadfunc(c, file, name))
    IN  IF "." \notin ToSet(name) THEN Nothing(c) ELSE Found(searchpath(SubSeq(name, 1, dot - 1), CPath))

searchers(k, c, name) ==
    CASE k = 1 -> searcher_preload(c, name)
      [] k = 2 -> searcher_Lua(c, name)
      [] k = 3 -> searcher_C(c, name)
      [] k = 4 -> searcher_Croot(c, name)

\* The searchers from the k-th on, after the answer of the one before.
RECURSIVE AnswerFrom(_, _, _)
AnswerFrom(k, answer, name) ==
    IF answer.k # "none" THEN answer
    ELSE IF k > 4 THEN AnyError(answer.clibs)
    ELSE AnswerFrom(k + 1, searchers(k, answer.clibs, name), name)
findloader(name) == AnswerFrom(1, Nothing(clibs), name)

(***************************************************************************)
(* What runs: the main chunk, when there are no frames, or the last loader. *)
(***************************************************************************)
Depth == Len(frames)
Top == frames[Depth]
Mine == IF Depth = 0 THEN Names ELSE Requires(Top.name)

\* An error ends the loaders down to one that was required with pcall, or to the host.
Unwound(fs) ==
    LET caught == {i \in DOMAIN fs : fs[i].caught} IN
    IF caught = {} THEN <<>>
    ELSE SubSeq(fs, 1, (CHOOSE i \in caught : \A j \in caught : j <= i) - 1)

ll_require(name, caught) ==
    LET f == findloader(name) IN
    /\ ~closed /\ name \in Mine
    /\ ~toboolean(loaded[name])  \* else it is there, and nothing happens
    /\ runs < MaxRuns
    /\ clibs' = IF Depth < MAXCCALLS THEN f.clibs ELSE clibs
    /\ IF f.k = "loader" /\ Depth < MAXCCALLS
       THEN /\ frames' = Append(frames, [name |-> name, loader |-> f.loader, caught |-> caught])
            /\ runs' = runs + 1
       ELSE frames' = (IF caught THEN frames ELSE Unwound(frames)) /\ UNCHANGED runs
    /\ UNCHANGED <<path, preload, loaded, done, closed>>

Finished(name) == frames' = SubSeq(frames, 1, Depth - 1) /\ done' = [done EXCEPT ![name] = @ + 1]

\* Mutant: true is not put in the place of a missing value.
LoaderReturns_nil(v) ==
    /\ ~closed /\ Depth > 0 /\ Finished(Top.name)
    /\ loaded' = [loaded EXCEPT ![Top.name] = IF v # "nil" THEN v ELSE @]
    /\ UNCHANGED <<path, preload, clibs, runs, closed>>

\* The rest of ll_require: what the loader returned, or what it left there, or true.
LoaderReturns(v) ==
    /\ ~closed /\ Depth > 0 /\ Finished(Top.name)
    /\ loaded' = [loaded EXCEPT ![Top.name] =
                     IF v # "nil" THEN v ELSE IF @ = "nil" THEN "true" ELSE @]
    /\ UNCHANGED <<path, preload, clibs, runs, closed>>

LoaderFails ==
    /\ ~closed /\ Depth > 0 /\ frames' = Unwound(frames)
    /\ UNCHANGED <<path, preload, loaded, clibs, runs, done, closed>>

SetsLoaded(name, v) ==
    /\ ~closed
    /\ Tampers \/ (Depth > 0 /\ name = Top.name /\ v = "table" /\ loaded[name] = "nil")
    /\ loaded' = [loaded EXCEPT ![name] = v]
    /\ UNCHANGED <<path, preload, clibs, frames, runs, done, closed>>

SetsPreload(name) ==
    /\ ~closed /\ preload' = preload \cup {name}
    /\ UNCHANGED <<path, loaded, clibs, frames, runs, done, closed>>

AppendsPath(extra) ==
    /\ ~closed /\ Len(path) + Len(extra) <= MaxPath /\ path' = path \o extra
    /\ UNCHANGED <<preload, loaded, clibs, frames, runs, done, closed>>

\* lua_close: gctm closes the handles of the list, the last one first.
RECURSIVE gctm(_, _)
gctm(list, open) ==
    IF list = <<>> THEN open
    ELSE gctm(SubSeq(list, 1, Len(list) - 1), [open EXCEPT ![list[Len(list)]] = @ - 1])

lua_close ==
    /\ ~closed /\ Depth = 0 /\ closed' = TRUE
    /\ clibs' = [clibs EXCEPT !.open = gctm(clibs.list, @)]
    /\ UNCHANGED <<path, preload, loaded, frames, runs, done>>

luaopen_package ==
    /\ path = setpath /\ preload = {}
    /\ loaded = [n \in Names |-> "nil"]
    /\ clibs = [map |-> {}, list |-> <<>>, open |-> [f \in DOMAIN Files |-> 0]]

Init ==
    /\ luaopen_package
    /\ frames = <<>> /\ closed = FALSE
    /\ runs = 0 /\ done = [n \in Names |-> 0]

Next ==
    \/ \E n \in Names, c \in BOOLEAN : ll_require(n, c)
    \/ \E v \in {"nil", "table"} \cup (IF Tampers THEN {"false"} ELSE {}) : LoaderReturns(v)
    \/ LoaderFails
    \/ \E n \in Names, v \in {"nil", "false", "table"} : SetsLoaded(n, v)
    \/ \E n \in Preloads : SetsPreload(n)
    \/ \E e \in Extras : AppendsPath(e)
    \/ lua_close

Spec == Init /\ [][Next]_vars

(***************************************************************************)
(* Where modules do not require each other in a circle, a module is loaded  *)
(* once: its loader comes to its end at most once, whatever failed, in what *)
(* order, and whatever was required while it ran.                           *)
(***************************************************************************)
LoadedOnce == \A n \in Names : done[n] <= 1 /\ (done[n] = 1 => toboolean(loaded[n]))

(***************************************************************************)
(* A library is opened once however many modules are looked for in it, is   *)
(* open while a loader of it runs, and is closed with the state, once.      *)
(***************************************************************************)
LibrariesOnce ==
    \A f \in DOMAIN Files :
        /\ clibs.open[f] \in {0, 1}
        /\ closed => clibs.open[f] = 0
        /\ (\E i \in DOMAIN frames : frames[i].loader.file = f /\ Files[f].k = "lib") => clibs.open[f] = 1

(***************************************************************************)
(* Of all files that a path names for a module, in its order, the first     *)
(* that can be read is the one that is loaded, whatever was appended.       *)
(***************************************************************************)
Templates(p) ==
    LET cuts == {0, Len(p) + 1} \cup {i \in DOMAIN p : p[i] = ";"}
        spans == {<<i, j>> \in cuts \X cuts : i < j /\ ~\E x \in cuts : i < x /\ x < j}
    IN  {<<s[1], SubSeq(p, s[1] + 1, s[2] - 1)>> : s \in {x \in spans : x[2] > x[1] + 1}}
Instance(t, name) == FlattenSeq([i \in DOMAIN t |-> IF t[i] = "?" THEN luaL_gsub(name, ".", <<"/">>) ELSE <<t[i]>>])
Candidates(p, name) == {<<t[1], Instance(t[2], name)>> : t \in Templates(p)}
FirstOf(p, name) ==
    LET ok == {c \in Candidates(p, name) : c[2] \in DOMAIN Files} IN
    IF ok = {} THEN Nowhere ELSE (CHOOSE c \in ok : \A d \in ok : c[1] <= d[1])[2]
FirstReadable == \A n \in Names : searchpath(n, path) = FirstOf(path, n) /\ searchpath(n, CPath) = FirstOf(CPath, n)
=============================================================================
