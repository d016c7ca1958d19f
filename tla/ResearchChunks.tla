--------------------------- MODULE ResearchChunks ---------------------------
(***************************************************************************)
(* pipelines/document_text.py: the text of a filing becomes the passages   *)
(* that research searches.  normalized_filing keeps the selected items, or *)
(* everything where no item is selected; build_research_chunks cuts each   *)
(* section into parents and each parent into overlapping chunks.  A text   *)
(* is the number of its tokens and the tokens at which a heading begins;   *)
(* an article is a text without headings.                                   *)
(***************************************************************************)
EXTENDS Integers, Sequences

CONSTANTS
    Documents,               \* the texts
    Target, Overlap,         \* target_tokens and overlap_tokens of a chunk
    ParentTokens             \* parent_tokens

(* What build_research_chunks refuses with a ValueError is left out.           *)
ASSUME ChunksAssumption ==
    /\ Target \in Nat /\ Overlap \in Nat /\ ParentTokens \in Nat
    /\ Overlap < Target /\ Target <= ParentTokens
    /\ \A text \in Documents :
          /\ text.length \in Nat
          /\ text.heads \subseteq 0 .. text.length - 1 /\ text.selected \subseteq text.heads

VARIABLES
    document,
    cursor,     \* the loops: the section, and where its next parent and chunk begin
    chunks      \* the chunks so far, in their order

chunkVars == <<document, cursor, chunks>>

(* extract_selected_sections, and the sections of build_research_chunks: with  *)
(* headings and none selected, what comes before the first one is in none.     *)
Sections ==
    IF document.selected # {} THEN document.selected
    ELSE IF document.heads # {} THEN document.heads
    ELSE IF document.length > 0 THEN {0} ELSE {}

Bounds == document.heads \cup {document.length}
SectionEnd(s) == CHOOSE e \in Bounds : e > s /\ \A b \in Bounds : b > s => e <= b

ChunksInit ==
    /\ document \in Documents
    /\ cursor = [pc |-> "section", section |-> -1, parent |-> 0, child |-> 0]
    /\ chunks = <<>>

BeginSection ==
    /\ cursor.pc = "section"
    /\ \E s \in Sections :
          /\ s > cursor.section /\ \A r \in Sections : r > cursor.section => s <= r
          /\ cursor' = [pc |-> "cut", section |-> s, parent |-> s, child |-> s]
    /\ UNCHANGED <<document, chunks>>

EndDocument ==
    /\ cursor.pc = "section" /\ \A s \in Sections : s <= cursor.section
    /\ cursor' = [cursor EXCEPT !.pc = "done"]
    /\ UNCHANGED <<document, chunks>>

(* windows(): the last window is cut short.                                    *)
UpTo(start, size, end) == IF start + size < end THEN start + size ELSE end
ParentEnd == UpTo(cursor.parent, ParentTokens, SectionEnd(cursor.section))
ChunkEnd == UpTo(cursor.child, Target, ParentEnd)

(* A variant: the windows end when what is left is in the overlap.             *)
NextUnlessShort ==
    IF ChunkEnd + Overlap < ParentEnd THEN [cursor EXCEPT !.child = ChunkEnd - Overlap]
    ELSE IF ParentEnd < SectionEnd(cursor.section)
    THEN [cursor EXCEPT !.parent = ParentEnd, !.child = ParentEnd]
    ELSE [cursor EXCEPT !.pc = "section"]

(* The next chunk overlaps with this one, the next parent does not.            *)
NextWindow ==
    IF ChunkEnd < ParentEnd THEN [cursor EXCEPT !.child = ChunkEnd - Overlap]
    ELSE IF ParentEnd < SectionEnd(cursor.section)
    THEN [cursor EXCEPT !.parent = ParentEnd, !.child = ParentEnd]
    ELSE [cursor EXCEPT !.pc = "section"]

Cut ==
    /\ cursor.pc = "cut"
    /\ chunks' = Append(chunks, [section |-> cursor.section, parent |-> cursor.parent,
                                 parentEnd |-> ParentEnd,
                                 from |-> cursor.child, to |-> ChunkEnd])
    /\ cursor' = NextWindow
    /\ UNCHANGED document

ChunksNext == BeginSection \/ EndDocument \/ Cut
ChunksSpec == ChunksInit /\ [][ChunksNext]_chunkVars

----------------------------------------------------------------------------
(* The tokens to be found: those whose last heading is a selected one, or any  *)
(* if none is, and all of a text without headings.                             *)
Findable ==
    {t \in 0 .. document.length - 1 :
       \/ document.heads = {}
       \/ \E h \in document.heads :
             /\ h <= t /\ \A g \in document.heads : g <= t => g <= h
             /\ document.selected = {} \/ h \in document.selected}

(* When a document is done every token that should be found is in a chunk,     *)
(* whatever is left over at the end of a parent or of a section.               *)
NothingLost ==
    cursor.pc = "done" =>
       \A t \in Findable : \E i \in DOMAIN chunks : chunks[i].from <= t /\ t < chunks[i].to

(* What silver_research_chunks expects of a chunk ("child_token_bound",        *)
(* "parent_token_bound") and more: a chunk lies in its parent, no heading lies *)
(* inside, and every chunk ends later than the one before: none repeats what   *)
(* has been said, and two of one parent share exactly the overlap.             *)
ChunksAreSound ==
    /\ \A i \in DOMAIN chunks :
          LET c == chunks[i] IN
          /\ c.section <= c.parent /\ c.parent <= c.from /\ c.to <= c.parentEnd
          /\ c.to - c.from \in 1 .. Target /\ c.parentEnd - c.parent <= ParentTokens
          /\ \A h \in document.heads : ~(c.section < h /\ h < c.parentEnd)
    /\ \A i \in 2 .. Len(chunks) :
          /\ chunks[i - 1].to < chunks[i].to
          /\ chunks[i].parent = chunks[i - 1].parent => chunks[i].from = chunks[i - 1].to - Overlap
          /\ chunks[i].parent # chunks[i - 1].parent => chunks[i].from >= chunks[i - 1].to

(* The chunks of a text stand for its findable part and for nothing else.  What *)
(* comes before the first heading is in no section, and no chunk, even when no *)
(* item is selected: the code falls back to the whole text only when there is  *)
(* no heading at all.                                                          *)
ChunksCoverText == NothingLost /\ ChunksAreSound
=============================================================================
