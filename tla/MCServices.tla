----------------------------- MODULE MCServices -----------------------------
(***************************************************************************)
(* Four modules for TLC that have no state in common: which of them moves *)
(* is chosen at the start, so their instances share one run.               *)
(***************************************************************************)
EXTENDS NotebookKernels, RawKernel, ResumedCell, WidgetMessages

CONSTANTS jupyter, python, run, debug

VARIABLE part

servicesVars == <<part, kernelsVars, rawVars, resumedVars, widgetVars>>

ServicesInit ==
    /\ part \in {"kernels", "raw", "resumed", "widgets"}
    /\ KernelsInit /\ RawInit /\ ResumedInit /\ WidgetInit
    /\ part # "kernels" => selected = jupyter

ServicesNext ==
    \/ /\ part = "kernels" /\ KernelsNext
       /\ UNCHANGED <<part, rawVars, resumedVars, widgetVars>>
    \/ /\ part = "raw" /\ RawNext
       /\ UNCHANGED <<part, kernelsVars, resumedVars, widgetVars>>
    \/ /\ part = "resumed" /\ ResumedNext
       /\ UNCHANGED <<part, kernelsVars, rawVars, widgetVars>>
    \/ /\ part = "widgets" /\ WidgetNext
       /\ UNCHANGED <<part, kernelsVars, rawVars, resumedVars>>

\* Nothing that is fair can happen in a part that does not move.
ServicesSpec ==
    /\ ServicesInit /\ [][ServicesNext]_servicesVars
    /\ KernelsFairness /\ RawFairness /\ ResumedFairness /\ WidgetFairness

=============================================================================
