-------------------------- MODULE MCSessionSummary --------------------------
EXTENDS SessionSummary

MCDesignations == {<<"q1">>}
MCCodesOf ==
    [runQuery        |-> {"CLICKHOUSE_QUERY_ERROR"},
     runBlueprint    |-> {"RUN_BLUEPRINT_ABORTED", "RUN_BLUEPRINT_INTERNAL_ERROR"},
     answerWithTable |-> {"ANSWER_TABLE_NO_TABLE_DESIGNATED"}]
=============================================================================
