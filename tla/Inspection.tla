------------------------------ MODULE Inspection ------------------------------
(***************************************************************************)
(* What the commands that look at a session say about it: `grape status`   *)
(* calls sessions and the whole project fresh, stale, partial or unsafe,   *)
(* and `grape stale` lists what was invalidated and why.  Both read only   *)
(* rows that compiles have written, and the repository as it is now, here  *)
(* the shape a compile of it would have.                                   *)
(***************************************************************************)
EXTENDS CompileProcess

CONSTANTS
    CleanShapes,     \* what is compiled of a worktree without changes
    PartialShapes,   \* the artifact has warnings of a partial analysis
    UnsafeShapes     \* the artifact has unsafe reasons

\* Without changes the commit says what is in the worktree.
ASSUME CleanFollowsCommit ==
    \A a, b \in Shapes \cap CleanShapes :
        a.branch = b.branch /\ a.commit = b.commit => a.deps["wt"] = b.deps["wt"]

----------------------------------------------------------------------------
(* grape status *)

KnownSessions == {s \in Sessions : sessions[s] # NoRow}

ArtifactsOf(s) == {n \in ArtifactIds : artifacts[n].session = s}

\* Artifacts are listed by the time their compile started, the latest first.
LatestArtifact(s) ==
    {n \in ArtifactsOf(s) : \A m \in ArtifactsOf(s) : artifacts[m].at \leq artifacts[n].at}

InvalidationsOf(s) ==
    {p \in packItems : p.state = "INVALIDATE_PREVIOUS" /\ SessionOf(p) = s}

\* Mutant: only the session row is compared, whatever was invalidated before.
FreshnessReasonsOfRow(s, now) ==
    (IF sessions[s].branch # now.branch \/ sessions[s].head # now.commit
     THEN {"session_branch_or_head_stale"} ELSE {})
        \cup (IF now \in CleanShapes THEN {} ELSE {"dirty_worktree"})

\* One invalidation, of whatever age, makes a session stale; no hash is compared.
FreshnessReasons(s, now) ==
    LET When(condition, reason) == IF condition THEN {reason} ELSE {}
        latest == {artifacts[n].shape : n \in LatestArtifact(s)} IN
    UNION {When(latest = {}, "session_has_no_context_artifact"),
           When(sessions[s].branch # now.branch \/ sessions[s].head # now.commit,
                "session_branch_or_head_stale"),
           When(InvalidationsOf(s) # {}, "stale_context_invalidations_present"),
           When(now \notin CleanShapes, "dirty_worktree"),
           When(latest \cap UnsafeShapes # {}, "artifact_has_unsafe_reasons"),
           When(latest \cap PartialShapes # {}, "partial_analysis_warnings_present")}

FreshnessStatusForReasons(reasons) ==
    IF "artifact_has_unsafe_reasons" \in reasons THEN "unsafe"
    ELSE IF reasons \cap {"session_branch_or_head_stale",
                          "stale_context_invalidations_present"} # {} THEN "stale"
    ELSE IF reasons \cap {"dirty_worktree", "partial_analysis_warnings_present"} # {}
         THEN "partial"
    ELSE IF reasons # {} THEN "unknown"
    ELSE "fresh"

SessionStatus(s, now) == FreshnessStatusForReasons(FreshnessReasons(s, now))

SessionsWith(status, now) == {s \in KnownSessions : SessionStatus(s, now) = status}

\* Of a project that is set up, see LocalProject for the others.
OverallStatus(now) ==
    IF SessionsWith("unsafe", now) # {} THEN "unsafe"
    ELSE IF SessionsWith("stale", now) # {} THEN "stale"
    ELSE IF now \notin CleanShapes \/ SessionsWith("partial", now) # {} THEN "partial"
    ELSE IF KnownSessions = {} THEN "unknown"
    ELSE "fresh"

RefreshRecommendations(now) ==
    LET status == OverallStatus(now) IN
    {advice \in {"compile", "rerun", "commit_or_stash", "inspect_errors"} :
        \/ advice = "compile" /\ KnownSessions = {}
        \/ advice = "rerun" /\ status = "stale"
        \/ advice = "commit_or_stash" /\ status = "partial" /\ now \notin CleanShapes
        \/ advice = "inspect_errors" /\ status = "unsafe"}

----------------------------------------------------------------------------
(* grape stale *)

\* The reason is read from the events of the build that invalidated.
StaleReasonForArtifact(n) ==
    IF [artifact |-> n, reason |-> "branch_changed"] \in events THEN "branch_changed"
    ELSE IF [artifact |-> n, reason |-> "session_reset"] \in events THEN "session_reset"
    ELSE "dependency_manifest_changed"

StaleItems(s) ==
    {[item |-> p, reason |-> StaleReasonForArtifact(p.artifact)] : p \in InvalidationsOf(s)}

----------------------------------------------------------------------------
(* Properties *)

SameTree(a, b) == a.branch = b.branch /\ a.commit = b.commit /\ a.deps["wt"] = b.deps["wt"]

\* A project that is called fresh has no session that holds anything of another branch or
\* commit, or of another content of the worktree unless that had changes when it was
\* compiled; and nothing is recommended.
FreshIsCurrent ==
    \A now \in Shapes : OverallStatus(now) = "fresh" =>
        /\ RefreshRecommendations(now) = {}
        /\ \A row \in UNION {ActiveSent(s) : s \in KnownSessions} :
              LET old == ArtifactOf(row).shape IN
              /\ old.branch = now.branch /\ old.commit = now.commit
              /\ old \in CleanShapes => SameTree(old, now)

\* The build of the same session before build n.
BuildBefore(n) ==
    {m \in 1 .. (n - 1) : /\ artifacts[m].session = artifacts[n].session
                          /\ \A k \in (m + 1) .. (n - 1) :
                                artifacts[k].session # artifacts[n].session}

\* The listed reason is what really happened between the two builds, though it is read
\* back from events and not from the rows: the branch moved, or the caller asked for a
\* reset, or neither.
StaleReasonsAreTrue ==
    \A s \in KnownSessions : \A stale \in StaleItems(s) :
        LET n == stale.item.artifact
            moved == \E m \in BuildBefore(n) :
                        artifacts[m].shape.branch # artifacts[n].shape.branch IN
        /\ stale.reason = "branch_changed" <=> moved
        /\ stale.reason = "session_reset" <=> ~moved /\ artifacts[n].reset

\* What the inspection commands tell is true of what compiles have left behind, also
\* after compiles that failed halfway, died, or moved between branches and back.
InspectionIsTrue == FreshIsCurrent /\ StaleReasonsAreTrue
=============================================================================
