------------------------------- MODULE LuaFile ------------------------------
(***************************************************************************)
(* The life of file handles (liolib.c): a handle is a userdata [f, closef] *)
(* whose stream is closed by a script, by an iterator at the end of the    *)
(* file, by the collector, in any order with the finalizers of objects     *)
(* that refer to the handle, or by lua_close.                              *)
(***************************************************************************)
EXTENDS Naturals, Sequences, FiniteSets, SequencesExt

CONSTANTS
    Contents,        \* name of a file -> its text, a sequence of characters
    Kinds,           \* what scripts open: "file", "pipe", "tmp"
    LineFormats,     \* formats that scripts give to lines, or <<>>
    LUAL_BUFFERSIZE, L_MAXLENNUM,
    MaxHandles,      \* bound: handles made after the standard ones
    MaxIterators     \* bound: iterators made by lines

VARIABLES
    handles,   \* [f, closef, gc]: a stream or NoFile; gc is "no", "pending", "done"
    streams,   \* FILE: [kind, name, pos, ends, misused, late]
    registry,  \* the handles at IO_INPUT and IO_OUTPUT
    held,      \* the handles that scripts can reach
    known,     \* the handles that scripts were ever given
    iterators, \* closures of io_readline: [file, formats, toclose, live, got, over]
    phase      \* "open", "closing" in lua_close, "closed"

vars == <<handles, streams, registry, held, known, iterators, phase>>

Text == INSTANCE LuaFileRead
    WITH Texts <- {}, Formats <- {}, Digit <- {"0"}, HexDigit <- {"0"}, text <- <<>>, pos <- 0

NoFile == 0
Standard == <<"stdin", "stdout">>
Handle(f, closef) == [f |-> f, closef |-> closef, gc |-> "no"]
Stream(kind, name) ==
    [kind |-> kind, name |-> name, pos |-> 0, ends |-> <<>>, misused |-> FALSE,
     late |-> phase # "open"]
New == Len(handles) + 1
isclosed(h) == handles[h].closef = "NULL"

\* What C does with a stream, apart from what it buffers; a use after the end
\* is undefined.
Used(s) == [s EXCEPT !.misused = @ \/ s.ends # <<>>]
Ended(s, by) == [Used(s) EXCEPT !.ends = Append(@, by)]
TextOf(s) == IF s.kind = "file" THEN Contents[s.name] ELSE <<>>

(***************************************************************************)
(* Opening: the stream of a handle, and the function that closes it.       *)
(***************************************************************************)
\* newprefile and newfile: the handle is there whether or not the stream is.
newfile(kind, name, closef, ok) ==
    /\ kind \in Kinds /\ phase # "closed" /\ Len(handles) < MaxHandles + Len(Standard)
    /\ handles' = Append(handles, Handle(IF ok THEN Len(streams) + 1 ELSE NoFile, closef))
    /\ streams' = IF ok THEN Append(streams, Stream(kind, name)) ELSE streams

\* The new handle is given to the script, or is garbage.
Given(ok) ==
    /\ held' = IF ok THEN held \cup {New} ELSE held
    /\ known' = IF ok THEN known \cup {New} ELSE known
    /\ UNCHANGED <<registry, iterators, phase>>

io_open(name, ok) == newfile("file", name, "io_fclose", ok) /\ Given(ok)
io_tmpfile(ok) == newfile("tmp", "", "io_fclose", ok) /\ Given(ok)
io_popen(ok) == newfile("pipe", "", "io_pclose", ok) /\ Given(ok)

(***************************************************************************)
(* Closing.                                                                *)
(***************************************************************************)
Files == [handles |-> handles, streams |-> streams]
Become(files) == handles' = files.handles /\ streams' = files.streams

\* Mutant: the handle is not marked as closed.
aux_close_unmarked(h) ==
    LET f == handles[h].f IN
    CASE handles[h].closef = "io_noclose" -> Files
      [] handles[h].closef = "io_fclose" -> [Files EXCEPT !.streams[f] = Ended(@, "fclose")]
      [] handles[h].closef = "io_pclose" -> [Files EXCEPT !.streams[f] = Ended(@, "pclose")]

\* Marks the handle, and calls what closes it; io_noclose takes the mark back.
aux_close(h) ==
    LET f == handles[h].f
        marked == [Files EXCEPT !.handles[h].closef = "NULL"]
    IN  CASE handles[h].closef = "io_noclose" -> Files
          [] handles[h].closef = "io_fclose" -> [marked EXCEPT !.streams[f] = Ended(@, "fclose")]
          [] handles[h].closef = "io_pclose" -> [marked EXCEPT !.streams[f] = Ended(@, "pclose")]

f_close(h) ==
    /\ phase # "closed" /\ ~isclosed(h) /\ Become(aux_close(h))  \* tofile
    /\ UNCHANGED <<registry, held, known, iterators, phase>>
io_close == f_close(registry.output)

\* __gc ignores handles that are closed, or that were never open.
f_gc(h) == IF ~isclosed(h) /\ handles[h].f # NoFile THEN aux_close(h) ELSE Files
\* f:__gc(), which a script can call through the metatable.
script_gc(h) ==
    /\ phase # "closed" /\ h \in held /\ Become(f_gc(h))
    /\ UNCHANGED <<registry, held, known, iterators, phase>>

(***************************************************************************)
(* The default files.                                                      *)
(***************************************************************************)

\* io.input(name) and io.output(name)
g_iofile(which, name, ok) ==
    /\ newfile("file", name, "io_fclose", ok)
    /\ registry' = IF ok THEN [registry EXCEPT ![which] = New] ELSE registry
    /\ held' = IF ok THEN held \cup {New} ELSE held
    /\ known' = IF ok THEN known \cup {New} ELSE known
    /\ UNCHANGED <<iterators, phase>>

\* io.input(file) and io.output(file)
g_iofile_handle(which, h) ==
    /\ phase # "closed" /\ h \in held /\ ~isclosed(h)
    /\ registry' = [registry EXCEPT ![which] = h]
    /\ UNCHANGED <<handles, streams, held, known, iterators, phase>>

\* io.input() and io.output()
g_iofile_get(which) ==
    /\ phase # "closed"
    /\ held' = held \cup {registry[which]} /\ known' = known \cup {registry[which]}
    /\ UNCHANGED <<handles, streams, registry, iterators, phase>>

(***************************************************************************)
(* Reading and writing.                                                    *)
(***************************************************************************)
Open(h) == phase # "closed" /\ ~isclosed(h)  \* tofile and getiofile
Uses(h, s) ==
    /\ streams' = [streams EXCEPT ![handles[h].f] = s]
    /\ UNCHANGED <<handles, registry, held, known, iterators, phase>>
StreamOf(h) == streams[handles[h].f]

g_read(h, formats) ==
    LET s == Used(StreamOf(h)) IN
    Uses(h, [s EXCEPT !.pos = Text!g_read(TextOf(s), s.pos, formats).pos])
f_read(h) == h \in held /\ Open(h) /\ g_read(h, <<>>)
io_read == Open(registry.input) /\ g_read(registry.input, <<>>)

g_write(h) == Uses(h, Used(StreamOf(h)))
f_write(h) == h \in held /\ Open(h) /\ g_write(h)
io_write == Open(registry.output) /\ g_write(registry.output)

f_flush(h) == h \in held /\ Open(h) /\ Uses(h, Used(StreamOf(h)))
io_flush ==
    /\ Open(registry.output)
    /\ Uses(registry.output, Used(StreamOf(registry.output)))
\* file:seek("set", 0)
f_seek(h) == h \in held /\ Open(h) /\ Uses(h, [Used(StreamOf(h)) EXCEPT !.pos = 0])

(***************************************************************************)
(* Iterators.                                                              *)
(***************************************************************************)
RoomForLines == Len(iterators) < MaxIterators
aux_lines(h, formats, toclose) ==
    iterators' = Append(iterators, [file |-> h, formats |-> formats, toclose |-> toclose,
                                    live |-> TRUE, got |-> <<>>, over |-> FALSE])

f_lines(h, formats) ==
    /\ h \in held /\ Open(h) /\ RoomForLines /\ aux_lines(h, formats, FALSE)
    /\ UNCHANGED <<handles, streams, registry, held, known, phase>>

\* io.lines(name): the script has the iterator, and never the handle.
io_lines(name, formats, ok) ==
    /\ RoomForLines /\ newfile("file", name, "io_fclose", ok)
    /\ IF ok THEN aux_lines(New, formats, TRUE) ELSE UNCHANGED iterators
    /\ UNCHANGED <<registry, held, known, phase>>

io_lines_default(formats) ==
    /\ Open(registry.input) /\ RoomForLines /\ aux_lines(registry.input, formats, FALSE)
    /\ UNCHANGED <<handles, streams, registry, held, known, phase>>

AtEnd(s, r) == r.v[1] = Text!Failed

\* A step of an iterator; private ones remember what they gave.
io_readline(i) ==
    LET it == iterators[i]
        s == StreamOf(it.file)
        Ends(end, r) ==
            /\ iterators' = [iterators EXCEPT ![i].got = IF ~end /\ it.toclose THEN Append(@, r.v) ELSE @,
                                              ![i].over = @ \/ end]
            /\ Become(IF end /\ it.toclose THEN aux_close(it.file)
                      ELSE [Files EXCEPT !.streams[handles[it.file].f] = [Used(s) EXCEPT !.pos = r.pos]])
        Gives(r) == Ends(AtEnd(s, r), r)
    IN  /\ it.live /\ Open(it.file)  \* else "file is already closed"
        /\ Gives(Text!g_read(TextOf(s), s.pos, it.formats))
        /\ UNCHANGED <<registry, held, known, phase>>

(***************************************************************************)
(* Scripts lose values, and the collector finds out.                       *)
(***************************************************************************)
Forgets(h) ==
    /\ h > Len(Standard) /\ held' = held \ {h}
    /\ UNCHANGED <<handles, streams, registry, known, iterators, phase>>
ForgetsIterator(i) ==
    /\ iterators' = [iterators EXCEPT ![i].live = FALSE]
    /\ UNCHANGED <<handles, streams, registry, held, known, phase>>

Reachable ==
    held \cup {registry.input, registry.output} \cup {it.file : it \in {x \in ToSet(iterators) : x.live}}

\* separatetobefnz: the handle will be finalized, whatever happens to it now.
Separated(h) ==
    /\ phase = "open" /\ h \notin Reachable /\ handles[h].gc = "no"
    /\ handles' = [handles EXCEPT ![h].gc = "pending"]
    /\ UNCHANGED <<streams, registry, held, known, iterators, phase>>

\* The finalizer of another object gives scripts what they had lost.
Resurrected(h) ==
    /\ phase # "closed" /\ h \in known /\ handles[h].gc # "no" /\ held' = held \cup {h}
    /\ UNCHANGED <<handles, streams, registry, known, iterators, phase>>
ResurrectedIterator(i) ==
    /\ phase # "closed" /\ handles[iterators[i].file].gc # "no"
    /\ iterators' = [iterators EXCEPT ![i].live = TRUE]
    /\ UNCHANGED <<handles, streams, registry, held, known, phase>>

\* GCTM calls __gc.
GCTM(h) ==
    /\ handles[h].gc = "pending"
    /\ Become([f_gc(h) EXCEPT !.handles[h].gc = "done"])
    /\ UNCHANGED <<registry, held, known, iterators, phase>>

\* lua_close: all handles are to be finalized, and only those that are there now.
luaC_freeallobjects ==
    /\ phase = "open" /\ phase' = "closing"
    /\ handles' = [h \in DOMAIN handles |->
                      [handles[h] EXCEPT !.gc = IF @ = "no" THEN "pending" ELSE @]]
    /\ UNCHANGED <<streams, registry, held, known, iterators>>
StateFreed ==
    /\ phase = "closing" /\ \A h \in DOMAIN handles : handles[h].gc # "pending"
    /\ phase' = "closed"
    /\ UNCHANGED <<handles, streams, registry, held, known, iterators>>

-----------------------------------------------------------------------------
luaopen_io ==
    /\ streams = [i \in DOMAIN Standard |->
                     [kind |-> "std", name |-> Standard[i], pos |-> 0, ends |-> <<>>,
                      misused |-> FALSE, late |-> FALSE]]
    /\ handles = [i \in DOMAIN Standard |-> Handle(i, "io_noclose")]
    /\ registry = [input |-> 1, output |-> 2]

Init ==
    /\ phase = "open" /\ luaopen_io
    /\ held = {1, 2} /\ known = {1, 2} /\ iterators = <<>>

Which == {"input", "output"}
Opens ==
    \E ok \in BOOLEAN :
        \/ io_popen(ok) \/ io_tmpfile(ok)
        \/ \E name \in DOMAIN Contents :
              \/ io_open(name, ok)
              \/ \E w \in Which : g_iofile(w, name, ok)
              \/ \E fs \in LineFormats : io_lines(name, fs, ok)

OnHandle(h) ==
    \/ f_close(h) \/ script_gc(h) \/ f_read(h) \/ f_write(h) \/ f_flush(h) \/ f_seek(h)
    \/ Forgets(h)
    \/ \E w \in Which : g_iofile_handle(w, h)
    \/ \E fs \in LineFormats : f_lines(h, fs)

OnDefault ==
    \/ io_close \/ io_read \/ io_write \/ io_flush
    \/ \E w \in Which : g_iofile_get(w)
    \/ \E fs \in LineFormats : io_lines_default(fs)

Collector ==
    \/ \E h \in DOMAIN handles : Separated(h) \/ GCTM(h) \/ Resurrected(h)
    \/ \E i \in DOMAIN iterators : ForgetsIterator(i) \/ ResurrectedIterator(i)
    \/ luaC_freeallobjects \/ StateFreed

Next ==
    \/ Opens \/ OnDefault \/ Collector
    \/ \E h \in held : OnHandle(h)
    \/ \E i \in DOMAIN iterators : io_readline(i)

Spec == Init /\ [][Next]_vars

(***************************************************************************)
(* Every stream is closed once, by the function that fits how it was       *)
(* opened, and never used afterwards: whichever of scripts, iterators, the *)
(* collector and lua_close come to close it.  While it is open one handle  *)
(* has it and will be finalized.  A closed state leaves only the standard  *)
(* streams open, and what finalizers opened while it was being closed.     *)
(***************************************************************************)
Closers == [file |-> {"fclose"}, tmp |-> {"fclose"}, pipe |-> {"pclose"}, std |-> {}]
Owners(f) == {h \in DOMAIN handles : handles[h].f = f /\ ~isclosed(h) /\ handles[h].gc # "done"}
StreamsOnce ==
    \A f \in DOMAIN streams :
        LET s == streams[f] IN
        /\ Len(s.ends) <= 1 /\ ToSet(s.ends) \subseteq Closers[s.kind] /\ ~s.misused
        /\ s.ends = <<>> /\ s.kind # "std" => Cardinality(Owners(f)) = 1
        /\ phase = "closed" /\ s.kind # "std" /\ ~s.late => s.ends # <<>>

(***************************************************************************)
(* A handle that scripts were given tells the truth: it is not closed if   *)
(* and only if it has a stream, and the stream is open.  This is what the  *)
(* assertion of tofile, and every use of p->f, rest on, also for handles   *)
(* that come back from finalizers, and for the default files.              *)
(***************************************************************************)
HandlesTell ==
    \A h \in known \cup {registry.input, registry.output} \cup {it.file : it \in ToSet(iterators)} :
        ~isclosed(h) <=> handles[h].f # NoFile /\ StreamOf(h).ends = <<>>

(***************************************************************************)
(* An iterator of io.lines(name), whose file nobody else has, gives the    *)
(* lines of the file in order, each once; it ends when it gave them all,   *)
(* and its file is closed then.  Other iterators close nothing.            *)
(***************************************************************************)
RECURSIVE LinesFrom(_, _)
LinesFrom(t, at) == IF at = Len(t) THEN <<>> ELSE
    LET e == CHOOSE i \in at + 1 .. Len(t) :
                 /\ t[i] = "\n" \/ i = Len(t)
                 /\ \A k \in at + 1 .. i - 1 : t[k] # "\n"
        line == SubSeq(t, at + 1, IF t[e] = "\n" THEN e - 1 ELSE e)
    IN  <<<<line>>>> \o LinesFrom(t, e)

LinesOnce ==
    \A i \in DOMAIN iterators :
        LET it == iterators[i]
            all == LinesFrom(TextOf(StreamOf(it.file)), 0)
        IN  it.toclose =>
            /\ it.formats = <<>> => it.got = SubSeq(all, 1, Len(it.got)) /\ (it.over => it.got = all)
            /\ it.over => isclosed(it.file)
=============================================================================
