CONSTANT MaxSemaforoa = 3
SPECIFICATION FairSpec
INVARIANTS TypeOK HelbideaAurretik MainEzHuts
PROPERTIES MqttAbiatu LinkdownZehatza
