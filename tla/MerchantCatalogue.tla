-------------------------- MODULE MerchantCatalogue --------------------------
(***************************************************************************)
(* The merchants table and the merchant_id column, as resolveMerchant of   *)
(* qris.go fills and reads them.  A payment names its merchant by a        *)
(* reference: the UUID of the row, the QRIS code, or anything else the     *)
(* legacy bank takes for the merchant; what it returns is the merchant's   *)
(* own code, under which the row is stored.  A row is named by the client  *)
(* whose request inserted it.                                              *)
(***************************************************************************)
EXTENDS TransactionStore, LegacyClient

CONSTANTS Clients,      \* requests in flight, one each
          CodeOf,       \* CodeOf[ref]: the code legacy has for a reference
          ById,         \* references that parse as a UUID
          Unknown,      \* the code of a reference that legacy does not know
          NoMerchant

Codes == {CodeOf[ref] : ref \in DOMAIN CodeOf} \ {Unknown}

\* Legacy knows a merchant's code by itself, and a UUID is one of our rows'.
ASSUME CatalogueAssumption ==
    /\ \A ref \in DOMAIN CodeOf : ref \in Codes => CodeOf[ref] = ref
    /\ \A ref \in ById : ref \in DOMAIN CodeOf \ Codes /\ CodeOf[ref] \in Codes
    /\ NoMerchant \notin Clients
    /\ \A r \in Requests : r.kind = "qris" => r.target \in DOMAIN CodeOf

VARIABLES merchants,   \* merchants[code]: the row with this qris_code
          payee        \* payee[k]: merchant_id of k's row

catalogueVars == <<merchants, payee>>

CatalogueInit ==
    /\ merchants = [code \in Codes |-> NoMerchant]
    /\ payee = [k \in Keys |-> NoMerchant]

\* GetMerchantByID for a UUID, GetMerchantByQRISCode for anything else.
Catalogued(ref) ==
    IF ref \in ById \/ ref \in Codes THEN merchants[CodeOf[ref]] ELSE NoMerchant

\* Mutant: qris_code is not UNIQUE, and the newest row is found.
InsertMerchantAgain(c, code) == merchants' = [merchants EXCEPT ![code] = c]

\* INSERT INTO merchants: refused when the code exists.
InsertMerchant(c, code) ==
    /\ merchants[code] = NoMerchant
    /\ merchants' = [merchants EXCEPT ![code] = c]

\* The two requests ask for the same payment: one merchant may have several references.
SamePayment(q, r) ==
    /\ q.kind = r.kind /\ q.account = r.account /\ q.amount = r.amount
    /\ IF q.kind = "qris" THEN CodeOf[q.target] = CodeOf[r.target] ELSE q.target = r.target

CatalogueTypeOK ==
    /\ merchants \in [Codes -> Clients \cup {NoMerchant}]
    /\ payee \in [Keys -> Clients \cup {NoMerchant}]
=============================================================================
