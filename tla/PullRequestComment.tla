-------------------------- MODULE PullRequestComment --------------------------
(***************************************************************************)
(* postPullRequestComment of src/comment.ts, in every leg of a workflow    *)
(* run: between the upload of its report and that of its receipt (see      *)
(* ArtifactUpload) a leg looks for its comment in the pull request, page   *)
(* by page, and updates it or posts another.  The comments are shared with *)
(* the other legs, with earlier runs and with everyone who may comment.    *)
(*                                                                         *)
(* A comment's body is its marker, with the workflow and the job, and whose*)
(* text it holds; the marker counts only where the body begins with it.    *)
(***************************************************************************)
EXTENDS ArtifactUpload, Sequences, FiniteSets

CONSTANTS
    Identities,    \* "workflow / job", with line ends and angle brackets made spaces
    IdentityOf,    \* of each leg: the legs of a matrix have the same GITHUB_JOB
    PerPage, MaxPages,
    Scenes,        \* the worlds considered, with the event and the comments at the start
    MaxEdits       \* bound: comments others write or delete

Tokens == {"none", "bot", "user"}
EventSpace == [pullRequest : BOOLEAN, fork : BOOLEAN, token : Tokens, repository : BOOLEAN]
Texts == Legs \cup {"other"}
Comments == [id : Nat, bot : BOOLEAN, marker : Identities \cup {None}, text : Texts]

ASSUME CommentAssumption ==
    /\ None \notin Identities
    /\ IdentityOf \in [Legs -> Identities]
    /\ PerPage \in Nat \ {0}
    /\ MaxPages \in Nat \ {0}
    /\ Scenes \subseteq [world : Worlds, event : EventSpace, thread : Seq(Comments)]
    /\ \A s \in Scenes : \A i \in DOMAIN s.thread : s.thread[i].id = i /\ s.thread[i].text = "other"
    /\ "other" \notin Legs
    /\ MaxEdits \in Nat

VARIABLES
    event,         \* CommentContext, and whose token it is
    thread,        \* the pull request's comments, oldest first
    posted,        \* comments ever posted; ids count them
    edits,
    post           \* what each leg's posting has come to

commentVars == <<event, thread, posted, edits, post>>
allVars == <<vars, commentVars>>

(* at: "before", "listing", "writing", "done"; page: the one to read next;  *)
(* existing: the comment found; seen: the comments of the leg's own that    *)
(* were there when it began, deleted: whether any was deleted since (history) *)
Posts == [at : {"before", "listing", "writing", "done"}, page : 1..MaxPages,
          existing : Nat \cup {None}, seen : SUBSET Nat, deleted : BOOLEAN]

CommentInit ==
    /\ Init
    /\ \E s \in Scenes :
          /\ faults = s.world.faults
          /\ \A l \in Legs : phase[l] = "report" <=> l \in s.world.legs
          /\ event = s.event
          /\ thread = s.thread
          /\ posted = Len(s.thread)
    /\ edits = 0
    /\ post = [l \in Legs |-> [at |-> "before", page |-> 1, existing |-> None,
                               seen |-> {}, deleted |-> FALSE]]

-----------------------------------------------------------------------------
Ids(cs) == {cs[i].id : i \in DOMAIN cs}

(* slip: anyone's comment will do *)
IsOwnOfAnyone(c, l) == c.marker = IdentityOf[l]

(* a bot's comment that begins with the marker and the leg's identity *)
IsOwn(c, l) == c.bot /\ c.marker = IdentityOf[l]

OwnAt(cs, l) == {i \in DOMAIN cs : IsOwn(cs[i], l)}

Commenting(l) == phase[l] = "receipt" /\ post[l].at # "done"

MayComment == event.pullRequest /\ ~event.fork /\ event.token # "none" /\ event.repository

(* the early returns, or the first page *)
BeginComment(l) ==
    /\ Commenting(l) /\ post[l].at = "before"
    /\ post' = IF MayComment
               THEN [post EXCEPT ![l].at = "listing",
                                 ![l].seen = {thread[i].id : i \in OwnAt(thread, l)}]
               ELSE [post EXCEPT ![l].at = "done"]
    /\ UNCHANGED <<event, thread, posted, edits>>

PageOf(k) == {i \in DOMAIN thread : (k - 1) * PerPage < i /\ i <= k * PerPage}

(* slip: the first page alone is read *)
ListFirstPage(l) ==
    /\ Commenting(l) /\ post[l].at = "listing"
    /\ LET hits == OwnAt(thread, l) \cap PageOf(1) IN
       \/ \E i \in hits :
             /\ \A j \in hits : i <= j
             /\ post' = [post EXCEPT ![l].existing = thread[i].id, ![l].at = "writing"]
       \/ hits = {} /\ post' = [post EXCEPT ![l].at = "writing"]
    /\ UNCHANGED <<event, thread, posted, edits>>

(* one page as it is when the server answers: the first comment of the leg's *)
(* own on it, or else the next page unless this one is short or the last     *)
ListPage(l) ==
    /\ Commenting(l) /\ post[l].at = "listing"
    /\ LET page == PageOf(post[l].page)
           hits == OwnAt(thread, l) \cap page IN
       \/ \E i \in hits :
             /\ \A j \in hits : i <= j
             /\ post' = [post EXCEPT ![l].existing = thread[i].id, ![l].at = "writing"]
       \/ /\ hits = {}
          /\ post' = IF Cardinality(page) = PerPage /\ post[l].page < MaxPages
                     THEN [post EXCEPT ![l].page = @ + 1]
                     ELSE [post EXCEPT ![l].at = "writing"]
    /\ UNCHANGED <<event, thread, posted, edits>>

CommentDone(l) == post' = [post EXCEPT ![l].at = "done"]

(* PATCH; the comment may be gone by now (404, a warning) *)
UpdateComment(l) ==
    /\ Commenting(l) /\ post[l].at = "writing" /\ post[l].existing # None
    /\ thread' = [i \in DOMAIN thread |->
                     IF thread[i].id = post[l].existing
                     THEN [thread[i] EXCEPT !.text = l, !.marker = IdentityOf[l]]
                     ELSE thread[i]]
    /\ CommentDone(l)
    /\ UNCHANGED <<event, posted, edits>>

Post(c) ==
    /\ thread' = Append(thread, c)
    /\ posted' = posted + 1

(* POST: a comment of the token's owner *)
CreateComment(l) ==
    /\ Commenting(l) /\ post[l].at = "writing" /\ post[l].existing = None
    /\ Post([id |-> posted + 1, bot |-> event.token = "bot", marker |-> IdentityOf[l], text |-> l])
    /\ CommentDone(l)
    /\ UNCHANGED <<event, edits>>

(* a request fails or is refused before it has done anything: a warning. A  *)
(* write whose answer is lost is the write, and then the same warning.      *)
CommentFails(l) ==
    /\ Commenting(l) /\ post[l].at \in {"listing", "writing"}
    /\ "break" \in faults
    /\ CommentDone(l)
    /\ UNCHANGED <<event, thread, posted, edits>>

PostComment(l) ==
    /\ \/ BeginComment(l) \/ ListPage(l) \/ UpdateComment(l) \/ CreateComment(l) \/ CommentFails(l)
    /\ UNCHANGED vars

-----------------------------------------------------------------------------
(* Everyone else: a person comments, perhaps with a copied marker, or a      *)
(* comment is deleted and those after it move up                            *)
OthersEdit ==
    /\ \E l \in Legs : post[l].at \in {"listing", "writing"}
    /\ edits < MaxEdits
    /\ edits' = edits + 1
    /\ \/ /\ \E m \in Identities \cup {None} :
                Post([id |-> posted + 1, bot |-> FALSE, marker |-> m, text |-> "other"])
          /\ UNCHANGED post
       \/ /\ \E i \in DOMAIN thread : thread' = SubSeq(thread, 1, i - 1) \o SubSeq(thread, i + 1, Len(thread))
          /\ post' = [l \in Legs |-> [post[l] EXCEPT !.deleted = @ \/ post[l].at \in {"listing", "writing"}]]
          /\ UNCHANGED posted
    /\ UNCHANGED <<vars, event>>

UploadStep(l) == Step(l) /\ ~Commenting(l) /\ UNCHANGED commentVars

CommentNext == (\E l \in Legs : UploadStep(l) \/ PostComment(l)) \/ OthersEdit

CommentSpec == CommentInit /\ [][CommentNext]_allVars

(* every leg goes on, and its requests settle: uploadArtifact bounds its own, *)
(* fetch's are bounded by the library (headers and body timeouts) alone       *)
FairCommentSpec ==
    CommentSpec /\ \A l \in Legs : WF_allVars(UploadStep(l) \/ PostComment(l))

-----------------------------------------------------------------------------
(* Properties                                                              *)

(* What a person or another job wrote is never written over: a text of ours *)
(* stands only in a comment of that leg's own workflow and job, and on a    *)
(* person's comment only if a person's token posted it.                     *)
CommentsKeepTheirOwner ==
    \A i \in DOMAIN thread :
        LET c == thread[i] IN
        c.text \in Legs => c.marker = IdentityOf[c.text] /\ (c.bot \/ event.token = "user")

(* "updates an existing bot-authored comment for the workflow/job where     *)
(* found": a leg posts another comment beside its own only when that one    *)
(* came while the leg was looking, lies beyond the pages it reads, or may   *)
(* have slipped to another page when a comment was deleted.                 *)
OneCommentPerJob ==
    [][\A l \in Legs :
          posted' > posted /\ thread'[Len(thread')].text = l /\ ~post[l].deleted =>
              \A i \in OwnAt(thread, l) :
                  thread[i].id \in post[l].seen => i > MaxPages * PerPage]_allVars
=============================================================================
