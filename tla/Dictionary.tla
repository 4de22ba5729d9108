---------------------------- MODULE Dictionary ----------------------------
(***************************************************************************)
(* The dictionary that normalises the terms of CVs, for one category:      *)
(* CandidatesService.approveNormalization, addDictionaryTerm and           *)
(* deleteDictionaryTerm.  Designations, companies, locations and degrees   *)
(* have tables of the same shape, with a unique index on the alias; the    *)
(* tables of skills have none and are not covered.  Each request is one    *)
(* transaction or one statement.  The parser is external: it queues a term *)
(* that it cannot resolve.  A term stands for its lower-case form.         *)
(***************************************************************************)
EXTENDS FiniteSets, Functions

CONSTANTS Terms

VARIABLES
    masters,        \* canonical terms
    aliases,        \* alias |-> its canonical term; aliases are unique
    pendingTerms,   \* ats.pending_normalizations
    settledTerms    \* terms whose approval was answered and whose alias nobody deleted

dictionaryVars == <<masters, aliases, pendingTerms, settledTerms>>

\* INSERT ... ON CONFLICT DO NOTHING
WithAlias(t, master) == IF t \in DOMAIN aliases THEN aliases
                        ELSE [x \in DOMAIN aliases \cup {t} |-> IF x = t THEN master ELSE aliases[x]]

\* Mutant: only a new canonical term gets its own name as an alias.
CanonicalAliasIfNew(t) == IF t \in masters THEN aliases ELSE WithAlias(t, t)
CanonicalAlias(t) == WithAlias(t, t)

Detect ==
    /\ \E t \in Terms \ (DOMAIN aliases \cup pendingTerms) : pendingTerms' = pendingTerms \cup {t}
    /\ UNCHANGED <<masters, aliases, settledTerms>>

TermApproved(t) == pendingTerms' = pendingTerms \ {t} /\ settledTerms' = settledTerms \cup {t}

\* The canonical term is found or inserted, and gets its own name as alias.
ApproveCanonical == \E t \in Terms :
    /\ masters' = masters \cup {t}
    /\ aliases' = CanonicalAlias(t)
    /\ TermApproved(t)

ApproveAlias == \E t \in Terms, master \in masters :
    /\ aliases' = WithAlias(t, master)
    /\ TermApproved(t)
    /\ UNCHANGED masters

\* A canonical term that exists already violates its unique index.
AddCanonical == \E t \in Terms \ masters :
    /\ masters' = masters \cup {t}
    /\ aliases' = WithAlias(t, t)
    /\ UNCHANGED <<pendingTerms, settledTerms>>

AddAlias == \E t \in Terms \ DOMAIN aliases, master \in masters :
    /\ aliases' = WithAlias(t, master)
    /\ UNCHANGED <<masters, pendingTerms, settledTerms>>

DeleteAlias == \E t \in DOMAIN aliases :
    /\ aliases' = Restrict(aliases, DOMAIN aliases \ {t})
    /\ settledTerms' = settledTerms \ {t}
    /\ UNCHANGED <<masters, pendingTerms>>

\* The aliases of the term first, then the term.
DeleteCanonical == \E master \in masters :
    LET own == {t \in DOMAIN aliases : aliases[t] = master}
    IN /\ aliases' = Restrict(aliases, DOMAIN aliases \ own)
       /\ masters' = masters \ {master}
       /\ settledTerms' = settledTerms \ own
       /\ UNCHANGED pendingTerms

DictionaryInit == masters = {} /\ aliases = <<>> /\ pendingTerms = {} /\ settledTerms = {}

DictionaryNext == Detect \/ ApproveCanonical \/ ApproveAlias \/ AddCanonical \/ AddAlias
                  \/ DeleteAlias \/ DeleteCanonical

DictionarySpec == DictionaryInit /\ [][DictionaryNext]_dictionaryVars

----------------------------------------------------------------------------
(* A term whose approval was answered resolves to an existing canonical    *)
(* term until its alias is deleted, whatever was added and deleted before  *)
(* under the same name.                                                    *)
ApprovedTermsResolve == \A t \in settledTerms : t \in DOMAIN aliases /\ aliases[t] \in masters
=============================================================================
