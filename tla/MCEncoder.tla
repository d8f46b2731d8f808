------------------------------ MODULE MCEncoder ------------------------------
(***************************************************************************)
(* Crate a, in one file of its own, uses macros of crate b and of the      *)
(* standard library; crate r uses a.  r and a are in one workspace, whose  *)
(* root cargo compiles both in, so that the paths of their files are       *)
(* relative to it; the paths of other crates are absolute.                 *)
(***************************************************************************)
EXTENDS Encoder

LocalPath(path) == [kind |-> "LocalPath", path |-> path, local |-> {}]
Remapped(path, local) == [kind |-> "Remapped", path |-> path, local |-> local]
Anonymous == [kind |-> "Anonymous", path |-> <<>>, local |-> {}]
File(crate, name, text, len) == [crate |-> crate, name |-> name, text |-> text, len |-> len]

ALib == <<"src", "lib.rs">>
RLib == <<"r", "src", "lib.rs">>
BLib == <<"/", "b", "src", "lib.rs">>
CoreLib == <<"rustc", "core", "lib.rs">>

SourceMap(fs) == FoldLeft(Loaded, <<>>, fs)

\* a is at 0..3, b at 4..6, core at 7..9, the macro at 10..11.
MCWriter == SourceMap(
    << File("a", LocalPath(ALib), "a", 3), File("b", LocalPath(BLib), "b", 2),
       File("core", Remapped(CoreLib, {"/rust/core/lib.rs"}), "core", 2),
       File("a", Anonymous, "macro", 1) >>)
MCReader == SourceMap(<< File("r", LocalPath(RLib), "r", 3) >>)

\* What r imports of other crates has absolute paths.
A == File("a", LocalPath(<<"/", "ws">> \o ALib), "a", 3)
MCImportable ==
    { A, File("b", LocalPath(BLib), "b", 2), File("core", Remapped(CoreLib, {}), "core", 2) }
MCDisk == (ALib :> [text |-> "a", len |-> 3]) @@ (RLib :> [text |-> "r", len |-> 3])
          @@ (BLib :> [text |-> "b", len |-> 2])

ASSUME FilesAgree

U == [kind |-> "type", con |-> "usize", args |-> <<>>]
RefOf(ty) == [kind |-> "type", con |-> "ref", args |-> <<ty>>]
PairOf(t1, t2) == [kind |-> "type", con |-> "tuple", args |-> <<t1, t2>>]

MCTypes == { U, RefOf(U), PairOf(RefOf(U), RefOf(U)), RefOf(PairOf(RefOf(U), RefOf(U))) }
MCSpans == { Dummy, Span(1, 2), Span(5, 6), Span(7, 8), Span(2, 5), Span(10, 11) }

\* Spans are mixed with a type that may be pointed at, larger types with each
\* other: every type that is written doubles the ways to remember types.
MaxValues == 3
MCBodies ==
    BoundedSeq(MCSpans \cup {RefOf(U)}, MaxValues) \cup BoundedSeq(MCTypes \ {U}, MaxValues)

==============================================================================
