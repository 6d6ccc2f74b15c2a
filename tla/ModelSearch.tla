------------------------------ MODULE ModelSearch ------------------------------
(***************************************************************************)
(* The search of the Models tab for community models (whspr-app: hf.rs,     *)
(* LlmSearchState; hub/models/llm_search.rs; whspr-hf: search.rs).  A       *)
(* search lists repositories; expanding one asks for its files; a file can  *)
(* be downloaded.  Neither request carries an identifier, and its answer is *)
(* applied to whatever is shown by then.  The buttons are disabled while    *)
(* one is in flight, pressing Enter in the search field is not.             *)
(***************************************************************************)
EXTENDS Naturals, FiniteSets

CONSTANTS
  Queries,    (* search terms                                                *)
  Repos,      (* repositories on the hub                                     *)
  NoRepo,
  MaxRequests (* bound of the model on requests                              *)

ASSUME NoRepoAssumption == NoRepo \notin Repos
ASSUME RequestsAssumption == MaxRequests \in Nat

VARIABLES
  query,        (* LlmSearchState.query                                      *)
  results,      (* .results                                                  *)
  selectedRepo, (* .selected_repo                                            *)
  files,        (* .files: each with the repository it is a file of          *)
  searching,    (* .busy                                                     *)
  requests,     (* requests in flight                                        *)
  asked,        (* counter of the bound                                      *)
  downloads,    (* downloads started: repository and file asked of it        *)
  crossed       (* history: a request was sent while another was in flight   *)

searchVars == <<query, results, selectedRepo, files, searching, requests, asked,
                downloads, crossed>>

NoQuery == "no query"   \* an empty search field

\* What the hub holds: every query but one that is empty finds something.
HitsOf(q) == IF q = NoQuery THEN {} ELSE Repos
FilesIn(repo) == {[of |-> repo, no |-> 1], [of |-> repo, no |-> 2]}

SearchInit ==
  /\ query = NoQuery /\ results = {} /\ selectedRepo = NoRepo /\ files = {}
  /\ searching = FALSE /\ crossed = FALSE
  /\ requests = {} /\ asked = 0 /\ downloads = {}

Send(request) ==
  /\ asked < MaxRequests /\ asked' = asked + 1
  /\ requests' = requests \cup {request}
  /\ crossed' = (crossed \/ requests # {})

LlmSearchInput(q) ==
  /\ query' = q
  /\ UNCHANGED <<results, selectedRepo, files, searching, requests, asked, downloads, crossed>>

\* The button (disabled while searching), or Enter.
LlmSearchSubmit ==
  /\ query # NoQuery
  /\ Send([no |-> asked + 1, kind |-> "search", about |-> query])
  /\ searching' = TRUE /\ selectedRepo' = NoRepo /\ files' = {}
  /\ UNCHANGED <<query, results, downloads>>

\* An error clears the results.
LlmSearchResults(request) ==
  /\ request.kind = "search"
  /\ requests' = requests \ {request} /\ searching' = FALSE
  /\ results' \in SUBSET HitsOf(request.about)
  /\ UNCHANGED <<query, selectedRepo, files, asked, downloads, crossed>>

\* mutant: the files of the repository shown before stay while the next are fetched
ShowFilesKeeping(repo) ==
  /\ ~searching /\ repo # selectedRepo
  /\ Send([no |-> asked + 1, kind |-> "files", about |-> repo])
  /\ selectedRepo' = repo /\ searching' = TRUE
  /\ UNCHANGED <<query, results, files, downloads>>

\* LlmSearchSelectRepo, of another repository than the expanded one ...
ShowFiles(repo) ==
  /\ ~searching /\ repo # selectedRepo
  /\ Send([no |-> asked + 1, kind |-> "files", about |-> repo])
  /\ selectedRepo' = repo /\ files' = {} /\ searching' = TRUE
  /\ UNCHANGED <<query, results, downloads>>

\* ... and of the expanded one, which collapses it.
HideFiles(repo) ==
  /\ ~searching /\ repo = selectedRepo
  /\ selectedRepo' = NoRepo /\ files' = {}
  /\ UNCHANGED <<query, results, searching, requests, asked, downloads, crossed>>

\* An error leaves the files as they are.
LlmSearchFiles(request) ==
  /\ request.kind = "files"
  /\ requests' = requests \ {request} /\ searching' = FALSE
  /\ files' = FilesIn(request.about) \/ files' = {} \/ UNCHANGED files
  /\ UNCHANGED <<query, results, selectedRepo, asked, downloads, crossed>>

\* LlmSearchDownload, of a row shown under the expanded repository, while no
\* other operation of the tab runs (ModelStore).
LlmSearchDownload(file) ==
  /\ selectedRepo \in results
  /\ downloads' = downloads \cup {<<selectedRepo, file>>}
  /\ UNCHANGED <<query, results, selectedRepo, files, searching, requests, asked, crossed>>

SearchNext ==
  \/ \E q \in Queries \cup {NoQuery} : LlmSearchInput(q)
  \/ LlmSearchSubmit
  \/ \E repo \in results : ShowFiles(repo) \/ HideFiles(repo)
  \/ \E request \in requests : LlmSearchResults(request) \/ LlmSearchFiles(request)
  \/ \E file \in files : LlmSearchDownload(file)

SearchSpec == SearchInit /\ [][SearchNext]_searchVars

-----------------------------------------------------------------------------
SearchTypeOK ==
  /\ query \in Queries \cup {NoQuery}
  /\ results \subseteq Repos /\ selectedRepo \in Repos \cup {NoRepo}
  /\ files \subseteq [of : Repos, no : 1..2]
  /\ searching \in BOOLEAN /\ crossed \in BOOLEAN
  /\ requests \subseteq [no : 1..MaxRequests, kind : {"search", "files"}, about : Queries \cup Repos]
  /\ asked \in 0..MaxRequests

\* Until a second request is sent while one is in flight (Enter), the files shown
\* are the expanded repository's, the flag is up exactly while a request is in
\* flight, and every file downloaded is asked of the repository that has it.
FilesOfRepo ==
  ~crossed =>
    /\ \A file \in files : file.of = selectedRepo
    /\ searching <=> requests # {}
    /\ \A d \in downloads : d[2].of = d[1]
=============================================================================
