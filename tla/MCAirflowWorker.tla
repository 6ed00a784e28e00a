--------------------------- MODULE MCAirflowWorker ----------------------------
(* The small pipelines under AirflowWorker.                                     *)
EXTENDS AirflowWorker

CONSTANTS NullKey, Mode, First,
          Retried  \* the tasks that have all the retries; the others have none

INSTANCE SmallPipelines

MCRetries == [t \in Tasks |-> IF t \in Retried THEN MaxRetries ELSE 0]
===============================================================================
