---------------------------- MODULE RestTraversal ----------------------------
(***************************************************************************)
(* One traversal of a paged REST source, page by page across ingestion     *)
(* requests: the continuation of each page is saved in the checkpoint of   *)
(* the binding and the next request resumes from it.  The source may hand  *)
(* out any continuation, an old one included.  The checkpoint remembers    *)
(* the last Window continuations and how many pages were committed.        *)
(* Requests that race for one page are the subject of SourceIngestion;     *)
(* here a read and its commit are one step.                                *)
(***************************************************************************)
EXTENDS Naturals, Sequences, SequencesExt

CONSTANTS
    Continuations,  \* what a source may hand out
    Window,         \* _VISITED_CURSOR_WINDOW
    MaxPages        \* limits.max_pages of the profile

ASSUME TraversalAssumption ==
    /\ Window \in Nat \ {0}
    /\ MaxPages \in Nat \ {0}
    /\ "none" \notin Continuations

VARIABLES
    saved,   \* source_checkpoint of the binding
    handed,  \* the continuations of the committed pages, in order
    refused  \* how the last read ended when it committed nothing

traversalVars == <<saved, handed, refused>>

NotStarted == [cursor |-> "none", pages |-> 0, traversal |-> "not_started",
               visited |-> <<>>]

TraversalInit ==
    /\ saved = NotStarted
    /\ handed = <<>>
    /\ refused = "no"

Terminal == {"complete", "page_limit_reached"}

\* _load_state accepts the checkpoint.
Loads(s) ==
    \/ s = NotStarted
    \/ /\ s.traversal \in Terminal \cup {"in_progress"}
       /\ Len(s.visited) <= Window
       /\ s.traversal = "in_progress" /\ s.pages > 0 => s.cursor # "none"

Refuse(reason) == refused' = reason /\ UNCHANGED <<saved, handed>>

\* A checkpoint that does not load, or a finished traversal, is never read.
RefuseCheckpoint ==
    /\ ~Loads(saved) \/ saved.traversal \in Terminal
    /\ Refuse("invalid_checkpoint")

\* A continuation that was already followed, as far as the window goes back.
Repeated(c) == c = saved.cursor \/ c \in Range(saved.visited)

\* Fault: the window is cut to its size before the new continuation joins it.
RememberAfterCut(c) ==
    Append(SubSeq(saved.visited, IF Len(saved.visited) > Window
                                 THEN Len(saved.visited) - Window + 1 ELSE 1,
                  Len(saved.visited)), c)

Remember(c) ==
    LET all == Append(saved.visited, c)
    IN  SubSeq(all, IF Len(all) > Window THEN Len(all) - Window + 1 ELSE 1,
               Len(all))

Readable == Loads(saved) /\ saved.traversal \notin Terminal

\* A page with a continuation: go on, or stop at the ceiling.
MorePages(c) ==
    /\ Readable
    /\ IF Repeated(c) THEN Refuse("no_progress")
       ELSE /\ saved' =
                 IF saved.pages + 1 >= MaxPages
                 THEN [cursor |-> "none", pages |-> saved.pages + 1,
                       traversal |-> "page_limit_reached", visited |-> Remember(c)]
                 ELSE [cursor |-> c, pages |-> saved.pages + 1,
                       traversal |-> "in_progress", visited |-> Remember(c)]
            /\ handed' = Append(handed, c)
            /\ refused' = "no"

\* A page without a continuation ends the traversal.
LastPage ==
    /\ Readable
    /\ saved' = [cursor |-> "none", pages |-> saved.pages + 1,
                 traversal |-> "complete", visited |-> saved.visited]
    /\ refused' = "no"
    /\ UNCHANGED handed

\* A page with more records than the limits admit is never committed; nor is
\* one that could not be fetched.
PageFails(reason) == Readable /\ Refuse(reason)

TraversalNext ==
    \/ RefuseCheckpoint
    \/ \E c \in Continuations : MorePages(c)
    \/ LastPage
    \/ \E reason \in {"limit_exceeded", "source_unavailable"} : PageFails(reason)

TraversalSpec == TraversalInit /\ [][TraversalNext]_traversalVars

\* The window of remembered continuations is long enough and never too long.
\* A source that leads the traversal in a circle shorter than the window is
\* caught before the circle is read a second time (connector_rest_ingestion.py,
\* "a loop shorter than this window is detected"); and whatever sequence of
\* pages was committed, the next request can load the checkpoint it left, and a
\* traversal that goes on is below its ceiling.
WindowIsSound ==
    /\ \A i, j \in 1 .. Len(handed) :
          i < j /\ handed[i] = handed[j] => j - i > Window
    /\ Loads(saved)
    /\ saved.traversal = "in_progress" => saved.pages < MaxPages
    /\ saved.pages <= MaxPages
=============================================================================
