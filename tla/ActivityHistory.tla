--------------------------- MODULE ActivityHistory ---------------------------
(***************************************************************************)
(* ActivityEngine with a history variable: the workers that another worker *)
(* has overtaken, between two of their steps that the code does not keep   *)
(* together.  What a request does on its own is stated for the others.     *)
(***************************************************************************)
EXTENDS ActivityEngine

VARIABLE
    overtaken   \* the workers in the middle of a sync whose rows another worker
                \* changed, or about to pick when another worker has picked

hvars == <<vars, overtaken>>

RowsOfUser(u) == {r \in starred_cache : r.username = u}

Bystander(w) == job'[w] = job[w]

HInit == Init /\ overtaken = {}

HNext ==
    /\ Next
    /\ overtaken' =
          {w \in Workers :
              \/ /\ job'[w].pc \in {"album", "artist"}
                 /\ \/ w \in overtaken
                    \/ Bystander(w)
                       /\ RowsOfUser(job[w].user)' # RowsOfUser(job[w].user)
              \/ /\ job'[w].pc = "pick"
                 /\ \/ w \in overtaken
                    \/ Bystander(w) /\ recentPickedUsers' # recentPickedUsers}

HSpec == HInit /\ [][HNext]_hvars /\ Fairness

----------------------------------------------------------------------------
\* A sync that completes, and that nobody has overtaken, leaves in the cache
\* what the server returned to it: all of it and nothing else, for every type.
CompletesSync(w) ==
    /\ At(w, "artist")
    /\ UpsertStarredItems(job[w].user, "artist", job[w].starred["artist"], clock)
    /\ ~Bystander(w)

SyncCachesSnapshot ==
    [][\A w \in Workers, u \in Users :
          CompletesSync(w) /\ w \notin overtaken /\ job[w].user = u =>
             [t \in ItemTypes |-> GetStarredItems(u, t)]' =
                job[w].starred]_hvars

\* The user is among the last n that were picked.
PickedLately(u, n) ==
    \E i \in 1..Len(recentPickedUsers) : i <= n /\ recentPickedUsers[i] = u

\* A pick that nobody has overtaken repeats one of the last picks, fewer than
\* there are valid users, only when so would every user that it may pick.
PickAvoidsRecent ==
    [][\A w \in Workers :
          Pick(w) /\ w \notin overtaken =>
             LET j == job[w]
                 n == Cardinality(j.validUsers) - 1
             IN  PickedLately(job'[w].user, n) =>
                    \A u \in j.validUsers \ {j.caller} : PickedLately(u, n)]_hvars
=============================================================================
