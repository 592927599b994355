SPECIFICATION Spec
CONSTANTS
    Word = 2
    Needed = 5
    Files <- MCFiles
    Datasets <- MCDatasets
    Benches = {"selfbloom", "blockbloom", "register_block_bloom", "partitioners",
               "std_table", "swiss_table", "swiss_table_mt"}
    Families = {"xxh3", "wyhash", "crc_wyhash"}
INVARIANTS ReadsInsideKey FewestLocations  EmptyOnlyWithoutEntropy
