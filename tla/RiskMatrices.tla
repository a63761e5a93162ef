----------------------------- MODULE RiskMatrices -----------------------------
(***************************************************************************)
(* The customisable risk matrix of an organisation and its version history *)
(* (app/api/routes/risk_matrix_config.py, models/risk_matrix_config.py).   *)
(***************************************************************************)
EXTENDS RowRequests

CONSTANTS Matrices  \* organisations with a risk matrix

FactorKeys == {"system", "custom"}  \* a factor of the defaults, and one of the users
Levels == {"low", "high"}
FactorRow == {<<>>} \union ({"default", "changed"} \X BOOLEAN)  \* weight, active

(* version holds the latest row of the history: its kind and both snapshots. *)
MatrixRows ==
    [factors : [FactorKeys -> FactorRow],
     profiles : [Levels -> {"none", "default", "changed"}],
     version : [change : {"none", "seeded_defaults", "factor_added", "factor_updated",
                          "factor_deleted", "weights_rebalanced", "profile_updated",
                          "restored_defaults"},
                factors : [FactorKeys -> FactorRow],
                profiles : [Levels -> {"none", "default", "changed"}]]]

NoFactors == [k \in FactorKeys |-> <<>>]
NewMatrix ==
    [factors |-> NoFactors, profiles |-> [l \in Levels |-> "none"],
     version |-> [change |-> "none", factors |-> NoFactors, profiles |-> [l \in Levels |-> "none"]]]

(* _record_version: what "stored" holds is the snapshot. *)
RecordVersion(r, stored, change) ==
    [r EXCEPT !.version = [change |-> change, factors |-> stored.factors,
                           profiles |-> stored.profiles]]

(* A handler that flushes its changes before it records the version. *)
Versioned(r, change) == RecordVersion(r, r, change)

DefaultProfiles == [l \in Levels |-> "default"]

(* _ensure_defaults: a matrix with a factor has its defaults. *)
EnsureDefaults(r) ==
    IF r.factors # NoFactors THEN r
    ELSE Versioned([r EXCEPT !.factors["system"] = <<"default", TRUE>>,
                             !.profiles = DefaultProfiles], "seeded_defaults")

ListMatrix(q, e) == Handle(q, e, EnsureDefaults(rows[e]))

AddRiskFactor(q, e) ==
    /\ Free(e, "factors", "custom", <<>>)
    /\ Handle(q, e, Versioned([EnsureDefaults(rows[e]) EXCEPT
                        !.factors["custom"] = <<"changed", TRUE>>], "factor_added"))

UpdateRiskFactor(q, e, k, weight, active) ==
    /\ rows[e].factors[k] # <<>>
    /\ Handle(q, e, Versioned([rows[e] EXCEPT !.factors[k] = <<weight, active>>], "factor_updated"))

(* The version is recorded first: its snapshot still holds the factor. *)
DeleteRiskFactor(q, e) ==
    /\ rows[e].factors["custom"] # <<>>
    /\ Handle(q, e, RecordVersion([rows[e] EXCEPT !.factors["custom"] = <<>>],
                                  rows[e], "factor_deleted"))

(* Active factors that the request does not name keep their weight; it may    *)
(* name none of them, and the version is recorded all the same.               *)
RebalanceWeights(q, e, named) ==
    Handle(q, e, Versioned([rows[e] EXCEPT !.factors = [k \in FactorKeys |->
        IF k \in named /\ @[k] # <<>> /\ @[k] # <<"default", FALSE>> /\ @[k] # <<"changed", FALSE>>
        THEN <<"changed", TRUE>> ELSE @[k]]], "weights_rebalanced"))

UpdateRiskProfile(q, e, l) ==
    /\ rows[e].profiles[l] # "none"
    /\ Handle(q, e, Versioned([rows[e] EXCEPT !.profiles[l] = "changed"], "profile_updated"))

(* Custom factors go, system factors are reset or inserted.  Profiles are     *)
(* reset, but those that do not exist are not inserted.                       *)
RestoreDefaults(q, e, section) ==
    Handle(q, e, Versioned([rows[e] EXCEPT
        !.factors = IF section = "profiles" THEN @
                    ELSE [NoFactors EXCEPT !["system"] = <<"default", TRUE>>],
        !.profiles = IF section = "factors" THEN @
                     ELSE [l \in Levels |-> IF @[l] = "none" THEN "none" ELSE "default"]],
        "restored_defaults"))

MatrixRequest(q, e) ==
    \/ ListMatrix(q, e) \/ AddRiskFactor(q, e) \/ DeleteRiskFactor(q, e)
    \/ \E k \in FactorKeys, weight \in {"default", "changed"}, active \in BOOLEAN :
         UpdateRiskFactor(q, e, k, weight, active)
    \/ \E named \in SUBSET FactorKeys : RebalanceWeights(q, e, named)
    \/ \E l \in Levels : UpdateRiskProfile(q, e, l)
    \/ \E section \in {"factors", "profiles", "all"} : RestoreDefaults(q, e, section)

-----------------------------------------------------------------------------
(* The history tells what the matrix is: the latest version holds the factors *)
(* and profiles that are in force, except for a factor that was deleted with  *)
(* it.  No handler changes the matrix behind its history.                     *)
LatestSnapshot ==
    \A e \in Matrices \ raced :
        LET r == rows[e] IN
        /\ r.version.profiles = r.profiles
        /\ r.factors = IF r.version.change = "factor_deleted"
                       THEN [r.version.factors EXCEPT !["custom"] = <<>>]
                       ELSE r.version.factors

=============================================================================
