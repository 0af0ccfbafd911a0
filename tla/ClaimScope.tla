------------------------------ MODULE ClaimScope ------------------------------
(***************************************************************************)
(* The scope of a claim: where it was true.  A scope is a record           *)
(*                                                                         *)
(*   [branch, commit, environment, flags, packageRoot, session,            *)
(*    sourceScope, worktree, sourceRef]                                    *)
(*                                                                         *)
(* whose fields are None when the JSON has no such string.  Two scopes are *)
(* compared dimension by dimension; each comparison is "match",            *)
(* "mismatch", "unknown" or "not_applicable", and a mismatch anywhere      *)
(* outweighs everything unknown, which outweighs every match.              *)
(* Flags are a function from names to values, or None.                     *)
(***************************************************************************)
CONSTANT None   \* an absent string

Compare(a, b) == IF a = b THEN "match" ELSE "mismatch"

----------------------------------------------------------------------------
(* One dimension of two scopes *)

\* branch, commit, sourceRef: a scope without them is never known to match.
RequiredDimension(a, b) ==
    IF a = None \/ b = None THEN "unknown" ELSE Compare(a, b)

\* packageRoot, sessionId between two claims.
OptionalDimension(a, b) ==
    IF a = None /\ b = None THEN "not_applicable" ELSE RequiredDimension(a, b)

\* An environment may be the wildcard "*" or the admission "unknown".
EnvironmentDimension(a, b) ==
    IF a = None /\ b = None THEN "not_applicable"
    ELSE IF "unknown" \in {a, b} THEN "unknown"
    ELSE IF "*" \in {a, b} THEN "match"
    ELSE RequiredDimension(a, b)

FlagsUnknown(flags) == \E name \in DOMAIN flags : flags[name] = "unknown"

\* Flags only have to agree on the names both scopes give.
FlagsDimension(a, b) ==
    IF a = None /\ b = None THEN "not_applicable"
    ELSE IF a = None \/ b = None THEN "unknown"
    ELSE IF FlagsUnknown(a) \/ FlagsUnknown(b) THEN "unknown"
    ELSE IF \E name \in DOMAIN a \cap DOMAIN b : a[name] # b[name]
         THEN "mismatch" ELSE "match"

\* Committed text is the same wherever the commit is; anything else is only
\* comparable within one state of the worktree.
SourceScopeDimension(a, b) ==
    IF a.sourceScope = None \/ b.sourceScope = None THEN "unknown"
    ELSE IF a.sourceScope = "committed" \/ b.sourceScope = "committed"
         THEN Compare(a.sourceScope, b.sourceScope)
    ELSE RequiredDimension(a.worktree, b.worktree)

----------------------------------------------------------------------------
(* One dimension of a scope and of what is current *)

\* A claim that names no session holds in all of them.
SessionToCurrent(session, current) ==
    IF session = None THEN "not_applicable" ELSE Compare(session, current)

\* A claim about a package needs the reader to be in one package.
PackageToCurrent(root, current) ==
    IF root = None THEN "not_applicable" ELSE RequiredDimension(root, current)

\* Mutant: what is outside of the files does not depend on them.
DirtyScopeStatusOfFiles(scope, worktree) ==
    IF scope.sourceScope \in {"committed", "external"} THEN "not_dirty"
    ELSE RequiredDimension(scope.worktree, worktree)
\* Whether a claim about uncommitted text is about this state of the worktree.
DirtyScopeStatus(scope, worktree) ==
    IF scope.sourceScope = "committed" THEN "not_dirty"
    ELSE IF scope.sourceScope \in {"staged", "unstaged", "untracked", "external"}
         THEN RequiredDimension(scope.worktree, worktree)
    ELSE "unknown"

----------------------------------------------------------------------------
(* The comparison of two scopes *)

Overall(dimensions) ==
    IF "mismatch" \in dimensions THEN "mismatch"
    ELSE IF "unknown" \in dimensions THEN "unknown" ELSE "match"

\* The dimensions every comparison of two claims looks at.
SharedDimensions(a, b) ==
    {RequiredDimension(a.branch, b.branch),
     RequiredDimension(a.commit, b.commit),
     EnvironmentDimension(a.environment, b.environment),
     FlagsDimension(a.flags, b.flags),
     OptionalDimension(a.packageRoot, b.packageRoot),
     OptionalDimension(a.session, b.session),
     SourceScopeDimension(a, b)}

ClaimScopesOverlap(a, b) == Overall(SharedDimensions(a, b))

ClaimScopesCompatibleForSupersession(a, b) ==
    Overall(SharedDimensions(a, b) \cup {RequiredDimension(a.sourceRef, b.sourceRef)})

\* current: [branch, commit, worktree, environment, flags, packageRoot, session];
\* a reader that names no session is not held to one.
ResolveCurrentScope(scope, current) ==
    Overall({RequiredDimension(scope.branch, current.branch),
             RequiredDimension(scope.commit, current.commit),
             EnvironmentDimension(scope.environment, current.environment),
             FlagsDimension(scope.flags, current.flags),
             PackageToCurrent(scope.packageRoot, current.packageRoot),
             IF current.session = None THEN "not_applicable"
             ELSE SessionToCurrent(scope.session, current.session)})
=============================================================================
