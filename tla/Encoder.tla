------------------------------- MODULE Encoder -------------------------------
(***************************************************************************)
(* The format of body files (body_cache/encoder.rs), for the two kinds of  *)
(* values that are not written as themselves.  A type is written once; its *)
(* later occurrences point back at the first.  A span is an interval of    *)
(* the positions one compiler numbers its source files with, and is written*)
(* relative to its file; the compiler that reads it looks for the file     *)
(* among those it has loaded, to which it adds files of other crates as it *)
(* comes across them, or loads the file itself.                            *)
(*                                                                         *)
(* Files have a text: what a position of theirs means.  Crates have the    *)
(* stable identifiers they are written with in both compilers.             *)
(***************************************************************************)
EXTENDS Naturals, SequencesExt

CONSTANTS
    Spans,       \* the spans of the writing compiler
    Types,       \* the types a body may hold, with the types they hold
    Bodies,      \* what may be written: sequences of spans and types
    Writer,      \* the source map of the writing compiler
    Reader,      \* that of the reading compiler, when it starts to read
    Importable,  \* the files of other crates that the reader may come across
    Disk,        \* the text and length of the files at paths the reader can open
    LocalCrate   \* the reader's own crate

VARIABLES
    body,     \* what is written
    tape,     \* the file
    types,    \* type_shorthands: where a type was written first
    writing,  \* the calls of the writer, the one for the body first
    files,    \* the source map of the reader, in order of positions
    pos,      \* the reader's position in the file
    shorts,   \* shorthand_map: the types read at positions pointed at
    stack,    \* the calls of the reader, the one for the body first
    phase     \* "writing", "reading" or "panicked"

vars == <<body, tape, types, writing, files, pos, shorts, stack, phase>>

----------------------------------------------------------------------------
(* Source maps.                                                            *)

End(f) == f.start + f.len

HasPos(f, p) == f.start <= p /\ p <= End(f)

FileAt(fs, p) == fs[CHOOSE k \in DOMAIN fs : HasPos(fs[k], p)]

\* A file at a place in a source map.
Starting(f, start) ==
    [crate |-> f.crate, name |-> f.name, text |-> f.text, len |-> f.len, start |-> start]

\* The file is given the positions after those of the last one.
Loaded(fs, f) == Append(fs, Starting(f, IF fs = <<>> THEN 0 ELSE End(fs[Len(fs)]) + 1))

IsSourceMap(fs) ==
    /\ fs \in Seq(Range(fs))
    /\ \A k \in DOMAIN fs : /\ fs[k] = Starting(fs[k], fs[k].start)
                            /\ fs[k].start \in Nat /\ fs[k].len \in Nat
    /\ \A j, k \in DOMAIN fs : j < k => End(fs[j]) < fs[k].start

\* A span without the context and the parent it has in its compiler.
Span(lo, hi) == [kind |-> "span", lo |-> lo, hi |-> hi]

Dummy == Span(0, 0)

----------------------------------------------------------------------------
(* What the compilers provide.                                             *)

SourcesAssumption ==
    /\ IsSourceMap(Writer)
    /\ IsSourceMap(Reader)
    /\ \A f \in Importable : f.len \in Nat
    /\ \A path \in DOMAIN Disk : Disk[path].len \in Nat
ASSUME SourcesAssumption

\* A span begins in a file, and ends there or in another.
SpansAssumption ==
    \A s \in Spans :
        /\ s = Span(s.lo, s.hi) /\ s.lo \in Nat /\ s.hi \in Nat /\ s.lo <= s.hi
        /\ s = Dummy \/ \E k \in DOMAIN Writer : HasPos(Writer[k], s.lo)
ASSUME SpansAssumption

TypesAssumption ==
    \A ty \in Types : ty = [kind |-> "type", con |-> ty.con, args |-> ty.args]
                      /\ ty.args \in Seq(Types)
ASSUME TypesAssumption

BodiesAssumption == Bodies \subseteq Seq(Spans \cup Types)
ASSUME BodiesAssumption

----------------------------------------------------------------------------
(* Writing.                                                                *)

\* The path a remapped file has on the writer's disk is of no use elsewhere.
Stripped(name) == [kind |-> name.kind, path |-> name.path, local |-> {}]

PartialSpan == [tag |-> "partial"]

FullSpan(f, s) == [tag |-> "span", crate |-> f.crate, name |-> Stripped(f.name),
                   lo |-> s.lo - f.start, len |-> s.hi - s.lo]

\* Mutant: the end of a span is taken to be in the file its start is in.
SpanCell_Unchecked(s) ==
    IF s = Dummy THEN PartialSpan ELSE FullSpan(FileAt(Writer, s.lo), s)

\* Macro expansion makes spans that begin in one file and end in another.
SpanCell(s) ==
    LET f == FileAt(Writer, s.lo)
    IN  IF s = Dummy \/ ~HasPos(f, s.hi) THEN PartialSpan ELSE FullSpan(f, s)

TypeCell(ty) == [tag |-> "type", con |-> ty.con, arity |-> Len(ty.args)]

ShorthandCell(at) == [tag |-> "shorthand", at |-> at]

\* A call of the writer: where it began, and how many arguments it has begun.
Encoding(ty, args, at, k) == [ty |-> ty, args |-> args, at |-> at, k |-> k]

Writing == writing[Len(writing)]
Unwritten == phase = "writing" /\ Writing.k < Len(Writing.args)
Argument == Writing.args[Writing.k + 1]
Begun == [writing EXCEPT ![Len(writing)] = Encoding(@.ty, @.args, @.at, @.k + 1)]

\* A map with one more entry. A type is no part of itself, so that nothing
\* is entered while it is being written or read.
Entered(map, key, value) ==
    [k \in DOMAIN map \cup {key} |-> IF k \in DOMAIN map THEN map[k] ELSE value]

Init ==
    /\ body \in Bodies
    /\ tape = <<>> /\ types = <<>>
    /\ writing = <<Encoding("body", body, 0, 0)>>
    /\ files = Reader
    /\ pos = 1 /\ shorts = <<>> /\ stack = <<>>
    /\ phase = "writing"

WriteSpan ==
    /\ Unwritten
    /\ Argument.kind = "span"
    /\ tape' = Append(tape, SpanCell(Argument))
    /\ writing' = Begun
    /\ UNCHANGED <<body, types, files, pos, shorts, stack, phase>>

WriteShorthand ==
    /\ Unwritten
    /\ Argument \in DOMAIN types
    /\ tape' = Append(tape, ShorthandCell(types[Argument]))
    /\ writing' = Begun
    /\ UNCHANGED <<body, types, files, pos, shorts, stack, phase>>

BeginType ==
    /\ Unwritten
    /\ Argument.kind = "type"
    /\ Argument \notin DOMAIN types
    /\ tape' = Append(tape, TypeCell(Argument))
    /\ writing' = Append(Begun, Encoding(Argument, Argument.args, Len(tape) + 1, 0))
    /\ UNCHANGED <<body, types, files, pos, shorts, stack, phase>>

\* rustc's encode_with_shorthand remembers a type if pointing back at it would
\* take no more room than it took. That depends on lengths in bytes, of the
\* type and of its position, so either may be the case of any type.
EndType ==
    /\ phase = "writing" /\ Len(writing) > 1
    /\ Writing.k = Len(Writing.args)
    /\ types' \in {types, Entered(types, Writing.ty, Writing.at)}
    /\ writing' = Front(writing)
    /\ UNCHANGED <<body, tape, files, pos, shorts, stack, phase>>

\* A call of the reader: for the body, for a type that is written out, and
\* for one that is pointed at.
Decoding(tag, con, at, arity, args) ==
    [tag |-> tag, con |-> con, at |-> at, arity |-> arity, args |-> args]

\* How many values there are is part of what is written as itself.
Open ==
    /\ phase = "writing" /\ Len(writing) = 1
    /\ Writing.k = Len(Writing.args)
    /\ stack' = <<Decoding("body", "body", 0, Len(body), <<>>)>>
    /\ phase' = "reading"
    /\ UNCHANGED <<body, tape, types, writing, files, pos, shorts>>

----------------------------------------------------------------------------
(* Reading.                                                                *)

Reading == stack[Len(stack)]
Unread == phase = "reading" /\ Len(Reading.args) < Reading.arity
Cell == tape[pos]
AtSpan == Unread /\ Cell.tag \in {"span", "partial"}

\* The call the stack ends with is given one of its arguments.
Given(st, x) ==
    [st EXCEPT ![Len(st)] = Decoding(@.tag, @.con, @.at, @.arity, Append(@.args, x))]

Holding(f) == {k \in DOMAIN files : files[k].crate = f.crate /\ files[k].name = f.name}

\* rustc comes across a file of another crate.
Import(f) ==
    /\ phase = "reading"
    /\ Holding(f) = {}
    /\ files' = Loaded(files, f)
    /\ UNCHANGED <<body, tape, types, writing, pos, shorts, stack, phase>>

IsReal(name) == name.kind \in {"LocalPath", "Remapped"}

\* A file may have a longer path here than where it was compiled.
IsNamed(f, name) ==
    \/ f.name = name
    \/ IsReal(name) /\ IsReal(f.name) /\ IsSuffix(name.path, f.name.path)

\* Mutant: crates are not told apart.
Matching_AnyCrate(cell) == {k \in DOMAIN files : IsNamed(files[k], cell.name)}

Matching(cell) ==
    {k \in DOMAIN files : files[k].crate = cell.crate /\ IsNamed(files[k], cell.name)}

CanLoad(cell) == cell.name.kind = "LocalPath" /\ cell.name.path \in DOMAIN Disk

\* rustc's load_file makes the file one of the crate being compiled.
FileLoaded(path) ==
    [crate |-> LocalCrate,
     name  |-> [kind |-> "LocalPath", path |-> path, local |-> {}],
     text  |-> Disk[path].text, len |-> Disk[path].len]

\* The source map with the span's file, and where in it the file is.
Located(cell) ==
    LET f == FileLoaded(cell.name.path) IN
    IF Matching(cell) # {} THEN [files |-> files, k |-> CHOOSE k \in Matching(cell) : TRUE]
    ELSE IF Holding(f) # {} THEN [files |-> files, k |-> CHOOSE k \in Holding(f) : TRUE]
    ELSE [files |-> Loaded(files, f), k |-> Len(files) + 1]

NotFound(cell) == Matching(cell) = {} /\ ~CanLoad(cell)
Ambiguous(cell) == \E j, k \in Matching(cell) : j # k

Placed(f, cell) == Span(f.start + cell.lo, f.start + cell.lo + cell.len)

InFile(f, s) == HasPos(f, s.lo) /\ HasPos(f, s.hi)

ReadPartial ==
    /\ AtSpan
    /\ Cell = PartialSpan
    /\ stack' = Given(stack, Dummy)
    /\ pos' = pos + 1
    /\ UNCHANGED <<body, tape, types, writing, files, shorts, phase>>

CanRead(cell) ==
    LET at == Located(cell) IN
    /\ ~NotFound(cell) /\ ~Ambiguous(cell)
    /\ InFile(at.files[at.k], Placed(at.files[at.k], cell))

ReadSpan ==
    /\ AtSpan
    /\ Cell # PartialSpan
    /\ CanRead(Cell)
    /\ LET at == Located(Cell)
       IN  files' = at.files /\ stack' = Given(stack, Placed(at.files[at.k], Cell))
    /\ pos' = pos + 1
    /\ UNCHANGED <<body, tape, types, writing, shorts, phase>>

Panic ==
    /\ AtSpan
    /\ Cell # PartialSpan
    /\ ~CanRead(Cell)
    /\ phase' = "panicked"
    /\ UNCHANGED <<body, tape, types, writing, files, pos, shorts, stack>>

ReadHead ==
    /\ Unread
    /\ Cell.tag = "type"
    /\ stack' = Append(stack, Decoding("type", Cell.con, pos, Cell.arity, <<>>))
    /\ pos' = pos + 1
    /\ UNCHANGED <<body, tape, types, writing, files, shorts, phase>>

ReadKnown ==
    /\ Unread
    /\ Cell.tag = "shorthand"
    /\ Cell.at \in DOMAIN shorts
    /\ stack' = Given(stack, shorts[Cell.at])
    /\ pos' = pos + 1
    /\ UNCHANGED <<body, tape, types, writing, files, shorts, phase>>

\* cached_ty_for_shorthand() calls with_position(), which moves the decoder.
Jump ==
    /\ Unread
    /\ Cell.tag = "shorthand"
    /\ Cell.at \notin DOMAIN shorts
    /\ stack' = Append(stack, Decoding("shorthand", "shorthand", pos, 1, <<>>))
    /\ pos' = Cell.at
    /\ UNCHANGED <<body, tape, types, writing, files, shorts, phase>>

EndHead ==
    /\ phase = "reading" /\ Reading.tag = "type"
    /\ Len(Reading.args) = Reading.arity
    /\ stack' = Given(Front(stack), [kind |-> "type", con |-> Reading.con, args |-> Reading.args])
    /\ UNCHANGED <<body, tape, types, writing, files, pos, shorts, phase>>

\* Mutant: the reader goes on where the type pointed at ends.
After_NoRestore(p) == pos

\* with_position() restores the position.
After(p) == p + 1

\* Mutant: a type is remembered for the place it is pointed at from.
Remembered_Here(p, ty) == Entered(shorts, p, ty)

\* Mutant: it is not remembered.
Remembered_Nothing(p, ty) == shorts

Remembered(p, ty) == Entered(shorts, tape[p].at, ty)

EndJump ==
    /\ phase = "reading" /\ Reading.tag = "shorthand"
    /\ Len(Reading.args) = Reading.arity
    /\ stack' = Given(Front(stack), Reading.args[1])
    /\ pos' = After(Reading.at)
    /\ shorts' = Remembered(Reading.at, Reading.args[1])
    /\ UNCHANGED <<body, tape, types, writing, files, phase>>

AllRead == Reading.tag = "body" /\ Len(Reading.args) = Reading.arity
Over == (phase = "panicked" \/ (phase = "reading" /\ AllRead)) /\ UNCHANGED vars

Next ==
    \/ WriteSpan \/ WriteShorthand \/ BeginType \/ EndType
    \/ Open
    \/ \E f \in Importable : Import(f)
    \/ ReadPartial \/ ReadSpan \/ Panic
    \/ ReadHead \/ ReadKnown \/ Jump \/ EndHead \/ EndJump
    \/ Over

Spec == Init /\ [][Next]_vars

----------------------------------------------------------------------------
(* What the reader depends on.                                             *)

\* The files that the reader may have in its source map.
Known == Range(Reader) \cup Importable \cup {FileLoaded(path) : path \in DOMAIN Disk}

\* The reader may take f for the file g of the writer.
MayBeTaken(f, g) ==
    \/ f.crate = g.crate /\ IsNamed(f, Stripped(g.name))
    \/ /\ g.name.kind = "LocalPath" /\ g.name.path \in DOMAIN Disk
       /\ f.crate = LocalCrate /\ f.name = FileLoaded(g.name.path).name

\* It does so with that file only: no other file of the crate has a path that
\* ends in its path, and what there is at its path on the disk is that file.
FilesAgree ==
    \A k \in DOMAIN Writer : \A f \in Known :
        MayBeTaken(f, Writer[k]) => (f.text = Writer[k].text /\ f.len = Writer[k].len)

----------------------------------------------------------------------------
(* Properties.                                                             *)

\* What a span is about, whatever its position.
Meaning(fs, s) ==
    IF s = Dummy THEN Dummy
    ELSE LET f == FileAt(fs, s.lo)
         IN  [text |-> f.text, lo |-> s.lo - f.start, hi |-> s.hi - f.start]

Crosses(fs, s) == s # Dummy /\ ~HasPos(FileAt(fs, s.lo), s.hi)

\* The empty span where the first file of a source map begins is the dummy:
\* it is not told from one where the file has another place.
IsEmptyAtStart(s) ==
    s.lo = s.hi /\ \E k \in DOMAIN Writer : s.lo = Writer[k].start

Same(new, old) ==
    IF old.kind = "type" THEN new = old
    ELSE /\ new.kind = "span"
         /\ \/ Meaning(files, new) = (IF Crosses(Writer, old) THEN Dummy ELSE Meaning(Writer, old))
            \/ new = Dummy /\ IsEmptyAtStart(old)

\* Every value that is read is the one that was written in its place: the
\* type, or a span of the same text, unless the span never was in one file.
\* This holds whichever files the reader had come across at which point, and
\* when all of them are read nothing of the file is left.
ReadsWhatWasWritten ==
    phase # "writing" =>
        /\ Len(stack[1].args) <= Len(body)
        /\ \A k \in DOMAIN stack[1].args : Same(stack[1].args[k], body[k])
        /\ phase = "reading" /\ AllRead => pos = Len(tape) + 1

\* Positions never overlap, shorthands point at types, and the reader knows
\* the types at the positions it followed only.
TypeOK ==
    /\ phase \in {"writing", "reading", "panicked"}
    /\ \A j, k \in DOMAIN files : j < k => End(files[j]) < files[k].start
    /\ \A k \in DOMAIN tape :
          tape[k].tag = "shorthand" => tape[k].at < k /\ tape[tape[k].at].tag = "type"
    /\ \A p \in DOMAIN shorts : \E ty \in DOMAIN types : types[ty] = p /\ shorts[p] = ty

\* A shorthand is never followed while another is: all that the reader was
\* past when it began is known, so that cached_ty_for_shorthand() is at most
\* one call deep however deep the types are.
OneJump ==
    \A i, j \in DOMAIN stack :
        stack[i].tag = "shorthand" /\ stack[j].tag = "shorthand" => i = j

\* The reader gives up on a span only if its file is neither loaded nor on
\* the disk, or if two files of a crate have paths one of which ends in the
\* other: no assertion about positions fails.
NoPanicWithoutReason == phase = "panicked" => NotFound(Cell) \/ Ambiguous(Cell)

==============================================================================
