---------------------------- MODULE MCDelivery ----------------------------
(***************************************************************************)
(* The services around the runs, for model checking: webhooks, callbacks,  *)
(* the inventory, secrets, work items, the model router and the            *)
(* specification of a task share no state, so that one instance runs one of*)
(* them and the others rest.                                               *)
(***************************************************************************)
EXTENDS Webhooks, Callbacks, Inventory, Secrets, WorkItems, Router, Specs

CONSTANT Part   \* the parts that are run

VARIABLE part

vars == <<part, intakeVars, deliveryVars, inventoryVars, secretsVars, workVars, routerVars, specVars>>

AnyWork == CHOOSE w \in [role : Roles, risk : Risks] : TRUE

(* A part that rests starts in one way.                                    *)
Rest ==
    /\ part # "webhooks"  => \A p \in Provider : integrations[p] = "absent"
    /\ part # "callbacks" => \A t \in Task : optIn[t] = {}
    /\ part # "inventory" => bucket = Absent
    /\ part # "workitems" => ~dirty /\ item.gates = {}
    /\ part # "router"    => connected = {} /\ work = AnyWork
    /\ part # "specs"     => config = {}

Init ==
    /\ part \in Part
    /\ IntakeInit /\ DeliveryInit /\ InventoryInit /\ SecretsInit /\ WorkInit /\ RouterInit
    /\ SpecsInit
    /\ Rest

Next ==
    \/ part = "webhooks" /\ IntakeNext
       /\ UNCHANGED <<part, deliveryVars, inventoryVars, secretsVars, workVars, routerVars, specVars>>
    \/ part = "callbacks" /\ DeliveryNext
       /\ UNCHANGED <<part, intakeVars, inventoryVars, secretsVars, workVars, routerVars, specVars>>
    \/ part = "inventory" /\ InventoryNext
       /\ UNCHANGED <<part, intakeVars, deliveryVars, secretsVars, workVars, routerVars, specVars>>
    \/ part = "secrets" /\ SecretsNext
       /\ UNCHANGED <<part, intakeVars, deliveryVars, inventoryVars, workVars, routerVars, specVars>>
    \/ part = "workitems" /\ WorkNext
       /\ UNCHANGED <<part, intakeVars, deliveryVars, inventoryVars, secretsVars, routerVars, specVars>>
    \/ part = "router" /\ RouterNext
       /\ UNCHANGED <<part, intakeVars, deliveryVars, inventoryVars, secretsVars, workVars, specVars>>
    \/ part = "specs" /\ SpecsNext
       /\ UNCHANGED <<part, intakeVars, deliveryVars, inventoryVars, secretsVars, workVars, routerVars>>

(* Titles with the words that decide what a specification names.           *)
MCTitles == { {}, {"docs"}, {"add", "api"} }

MCConnections ==
    { {}, {"openai"}, {"anthropic", "gemini"}, {"groq", "fireworks", "bifrost"},
      {"openai", "anthropic", "gemini", "groq", "fireworks", "bifrost"} }

\* One size of an answer.
MCTokens == { <<2, 1>> }

Spec == Init /\ [][Next]_vars

TypeOK == IntakeTypeOK /\ DeliveryTypeOK /\ InventoryTypeOK /\ SecretsTypeOK /\ WorkTypeOK

=============================================================================
