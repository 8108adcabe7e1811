----------------------------- MODULE MCAsyncCsvLog -----------------------------
EXTENDS AsyncCsvLog
===============================================================================
